---- MODULE Spec2Model ----
(***************************************************************************)
(* ChatLab storage-and-query engine: importData (one SQLite transaction    *)
(* that fills a fresh session database and rebuilds each member's nickname *)
(* timeline) and the getMemberActivity analytics query, modelled from      *)
(* electron/main/database/index.ts.                                        *)
(*                                                                         *)
(* Conventions: SQL NULL and JS undefined numbers are NULL (-1, no real    *)
(* timestamp is negative); a missing senderName is Undefined; the literal  *)
(* reserved sender name of the source is written SystemSender;             *)
(* percentages are kept in hundredths (66.67 is 6667).                     *)
(***************************************************************************)
EXTENDS Naturals, Integers, Sequences, FiniteSets, TLC

VARIABLES
  parseResult,      \* the ParseResult handed to importData
  pc,               \* position of the importData call
  fileExists,       \* the primary <sessionId>.db file exists on disk
  db,               \* rows as seen by the importing connection
  committed,        \* rows as seen by every other connection (readers)
  memberIdMap,      \* platformId -> member.id
  nicknameTracker,  \* platformId -> [currentName, lastSeenTs]
  sortedMessages,   \* parseResult.messages sorted by timestamp
  memberIndex,      \* next element of parseResult.members to insert
  msgIndex,         \* next element of sortedMessages to walk
  activity,         \* last getMemberActivity call: filter and returned rows
  sideFiles,        \* the <sessionId>.db-wal and .db-shm files exist on disk
  otherFiles,       \* the other *.db files of the database directory
  result,           \* last call of another exported function: op, args, value
  currentSessionId, \* sessionStore.currentSessionId of the renderer
  messageList,      \* the MessageList component: its query prop, its refs
                    \* and the count it last emitted
  pending           \* the aiApi requests of MessageList that are in flight

vars == <<parseResult, pc, fileExists, db, committed, memberIdMap,
          nicknameTracker, sortedMessages, memberIndex, msgIndex, activity,
          sideFiles, otherFiles, result, currentSessionId,
          messageList, pending>>

\* the renderer's state
listVars == <<currentSessionId, messageList, pending>>

-----------------------------------------------------------------------------
(* Bounds and input domains *)

MaxMembers == 2
MaxMsgs == 2
MaxWalkMsgs == 3

NULL == -1
Undefined == "undefined"
SystemSender == "system_message"
Now == 1000

SeqsUpTo(S, n) == UNION {[1..m -> S] : m \in 0..n}

Member(pid, name) == [platformId |-> pid, name |-> name]

Message(pid, name, ts) ==
  [senderPlatformId |-> pid, senderName |-> name, timestamp |-> ts,
   type |-> 0, content |-> "hi"]

ParseMeta == [name |-> "chat", platform |-> "qq", type |-> "group"]

MemberPool == {Member("X", "Alice"), Member("Y", "Bob"), Member("X", "Alicia")}

\* member lists with repeated and missing platform ids, and messages of
\* listed and unlisted senders
MemberListInputs ==
  {[meta |-> ParseMeta, members |-> ms, messages |-> msgs] :
     ms \in SeqsUpTo(MemberPool, MaxMembers),
     msgs \in SeqsUpTo({Message("X", "Alice", 100), Message("Y", "Alice", 100)},
                       MaxMsgs)}

GeneralMessages ==
  {Message(p, n, t) : p \in {"X", "Y"},
                      n \in {"Alice", SystemSender, Undefined},
                      t \in {100, 200}}

\* message lists with system senders, missing sender names, unlisted senders,
\* equal and out-of-order timestamps
GeneralInputs ==
  {[meta |-> ParseMeta, members |-> ms, messages |-> msgs] :
     ms \in {<<Member("X", "Alice")>>, <<Member("X", "Alice"), Member("Y", "Bob")>>},
     msgs \in SeqsUpTo(GeneralMessages, MaxMsgs)}

NicknameMessages ==
  {Message(p, n, t) : p \in {"X", "Y"}, n \in {"Alice", "Alicia"},
                      t \in {100, 200, 300}}

\* longer message lists of two known members that change nicknames
NicknameInputs ==
  {[meta |-> ParseMeta,
    members |-> <<Member("X", "Alice"), Member("Y", "Bob")>>,
    messages |-> msgs] : msgs \in SeqsUpTo(NicknameMessages, MaxWalkMsgs)}

\* the concrete scenario of the specification's testable properties
Scenario ==
  [meta |-> ParseMeta,
   members |-> <<Member("X", "Alice"), Member("Y", "Bob")>>,
   messages |-> <<Message("X", "Alice", 100), Message("X", "Alicia", 200),
                  Message("X", "Alicia", 300), Message("Y", "Bob", 150)>>]

ParseInputs ==
  MemberListInputs \cup GeneralInputs \cup NicknameInputs \cup {Scenario}

\* time filters: no bound, each bound alone, both bounds
TimeFilter(startTs, endTs) == [startTs |-> startTs, endTs |-> endTs]
NoFilter == TimeFilter(NULL, NULL)
Filters == {NoFilter, TimeFilter(200, NULL), TimeFilter(NULL, 100),
            TimeFilter(100, 100)}

-----------------------------------------------------------------------------
(* Schema and statements *)

EmptyDb == [meta |-> <<>>, member |-> <<>>, member_name_history |-> <<>>,
            message |-> <<>>]

\* INTEGER PRIMARY KEY AUTOINCREMENT on a table no row is ever deleted from
NextId(table) == Len(table) + 1

\* mutant: the statements run outside a transaction, each one committing
AutocommitStatement(committedRows, workingRows) == workingRows

\* a statement run inside db.transaction(): other connections keep seeing
\* the last committed rows
TxnStatement(committedRows, workingRows) == committedRows

InsertMeta(store, meta) ==
  [store EXCEPT !.meta = Append(@, [name |-> meta.name,
                                    platform |-> meta.platform,
                                    type |-> meta.type,
                                    imported_at |-> Now])]

\* mutant: a plain INSERT into a member table without the UNIQUE constraint
InsertMemberAlways(table, member) ==
  Append(table, [id |-> NextId(table), platform_id |-> member.platformId,
                 name |-> member.name])

\* INSERT OR IGNORE INTO member: platform_id is UNIQUE
InsertMember(table, member) ==
  IF \E q \in DOMAIN table : table[q].platform_id = member.platformId
    THEN table
    ELSE Append(table, [id |-> NextId(table),
                        platform_id |-> member.platformId,
                        name |-> member.name])

\* SELECT id FROM member WHERE platform_id = ?   (.get(): the first row)
GetMemberId(table, pid) ==
  LET hits == {q \in DOMAIN table : table[q].platform_id = pid}
      first == CHOOSE q \in hits : \A r \in hits : q <= r
  IN  table[first].id

InsertMessage(table, senderId, msg) ==
  Append(table, [id |-> NextId(table), sender_id |-> senderId,
                 ts |-> msg.timestamp, type |-> msg.type,
                 content |-> msg.content])

\* mutant: the interval opened at the epoch, not at the message
InsertHistoryFromZero(table, senderId, name, ts) ==
  Append(table, [id |-> NextId(table), member_id |-> senderId,
                 name |-> name, start_ts |-> 0, end_ts |-> NULL])

\* INSERT INTO member_name_history (member_id, name, start_ts, end_ts)
\* VALUES (?, ?, ?, NULL)
InsertNameHistory(table, senderId, name, ts) ==
  Append(table, [id |-> NextId(table), member_id |-> senderId,
                 name |-> name, start_ts |-> ts, end_ts |-> NULL])

\* mutant: the UPDATE without its member_id condition
CloseEveryMember(table, ts, senderId) ==
  [q \in DOMAIN table |->
     IF table[q].end_ts = NULL THEN [table[q] EXCEPT !.end_ts = ts]
                               ELSE table[q]]

\* UPDATE member_name_history SET end_ts = ? WHERE member_id = ? AND end_ts IS NULL
UpdateNameHistoryEndTs(table, ts, senderId) ==
  [q \in DOMAIN table |->
     IF table[q].member_id = senderId /\ table[q].end_ts = NULL
       THEN [table[q] EXCEPT !.end_ts = ts]
       ELSE table[q]]

\* UPDATE member SET name = ? WHERE platform_id = ?
UpdateMemberName(table, name, pid) ==
  [q \in DOMAIN table |->
     IF table[q].platform_id = pid THEN [table[q] EXCEPT !.name = name]
                                   ELSE table[q]]

-----------------------------------------------------------------------------
(* importData: the steps of the transaction body as functions of the       *)
(* connection state st = [db, memberIdMap, nicknameTracker]                *)

\* mutant: a sort that puts a message before the earlier ones of its timestamp
InsertBeforeEqual(sorted, m) ==
  LET pos == Cardinality({q \in DOMAIN sorted : sorted[q].timestamp < m.timestamp})
  IN  SubSeq(sorted, 1, pos) \o <<m>> \o SubSeq(sorted, pos + 1, Len(sorted))

\* the stable ascending sort [...messages].sort((a, b) => a.timestamp - b.timestamp)
InsertSorted(sorted, m) ==
  LET pos == Cardinality({q \in DOMAIN sorted : sorted[q].timestamp <= m.timestamp})
  IN  SubSeq(sorted, 1, pos) \o <<m>> \o SubSeq(sorted, pos + 1, Len(sorted))

\* mutant: the messages walked in input order
KeepInputOrder(messages) == messages

RECURSIVE SortByTimestamp(_)
SortByTimestamp(messages) ==
  IF messages = <<>> THEN <<>>
  ELSE InsertSorted(SortByTimestamp(SubSeq(messages, 1, Len(messages) - 1)),
                    messages[Len(messages)])

\* one iteration of "for (const member of parseResult.members)"
MemberStep(st, member) ==
  LET table == InsertMember(st.db.member, member)
  IN  [st EXCEPT !.db.member = table,
                 !.memberIdMap = (member.platformId :> GetMemberId(table, member.platformId)) @@ @]

\* mutant: the previous interval is not closed
LeaveIntervalOpen(table, ts, senderId) == table

\* the closing of the previous nickname interval when the name changed
CloseInterval(table, ts, senderId) == UpdateNameHistoryEndTs(table, ts, senderId)

\* mutant: the missing name is met before the sender is looked up
ThrowsOnAnyUnnamed(st, msg) == msg.senderName = Undefined

\* insertNameHistory.run fails on a missing name (name TEXT NOT NULL); it is
\* reached on a first sighting and on a changed name, so for every message of
\* a known sender without a name
WalkThrows(st, msg) ==
  /\ msg.senderPlatformId \in DOMAIN st.memberIdMap
  /\ msg.senderName = Undefined

\* one iteration of "for (const msg of sortedMessages)" that does not throw
WalkStep(st, msg) ==
  LET pid == msg.senderPlatformId
      senderId == st.memberIdMap[pid]
      currentName == msg.senderName
      entry == [currentName |-> currentName, lastSeenTs |-> msg.timestamp]
      withMsg == [st EXCEPT !.db.message = InsertMessage(@, senderId, msg)]
  IN  IF pid \notin DOMAIN st.memberIdMap THEN st
      ELSE IF pid \notin DOMAIN st.nicknameTracker
        THEN [withMsg EXCEPT
                !.nicknameTracker = (pid :> entry) @@ @,
                !.db.member_name_history =
                    InsertNameHistory(@, senderId, currentName, msg.timestamp)]
      ELSE IF st.nicknameTracker[pid].currentName # currentName
        THEN [withMsg EXCEPT
                !.nicknameTracker = (pid :> entry) @@ @,
                !.db.member_name_history =
                    InsertNameHistory(CloseInterval(@, msg.timestamp, senderId),
                                      senderId, currentName, msg.timestamp)]
      ELSE [withMsg EXCEPT !.nicknameTracker[pid].lastSeenTs = msg.timestamp]

\* the rows written by an iteration before insertNameHistory.run throws
WalkPartial(st, msg) ==
  LET senderId == st.memberIdMap[msg.senderPlatformId]
      withMsg == [st EXCEPT !.db.message = InsertMessage(@, senderId, msg)]
  IN  IF msg.senderPlatformId \in DOMAIN st.nicknameTracker
        THEN [withMsg EXCEPT !.db.member_name_history =
                                CloseInterval(@, msg.timestamp, senderId)]
        ELSE withMsg

\* "for (const [platformId, tracker] of nicknameTracker.entries())"
RECURSIVE UpdateNames(_, _, _)
UpdateNames(table, tracker, pids) ==
  IF pids = {} THEN table
  ELSE LET pid == CHOOSE p \in pids : TRUE
       IN  UpdateNames(UpdateMemberName(table, tracker[pid].currentName, pid),
                       tracker, pids \ {pid})

\* mutant: the member names are left as first inserted
SkipMemberNames(st) == st

UpdateMemberNames(st) ==
  [st EXCEPT !.db.member = UpdateNames(@, st.nicknameTracker, DOMAIN st.nicknameTracker)]

\* the body of importTransaction as one function of the parse result, for
\* a parse result on which no iteration throws
RECURSIVE FoldMembers(_, _)
FoldMembers(st, members) ==
  IF members = <<>> THEN st
  ELSE FoldMembers(MemberStep(st, Head(members)), Tail(members))

RECURSIVE FoldWalk(_, _)
FoldWalk(st, messages) ==
  IF messages = <<>> THEN st
  ELSE FoldWalk(WalkStep(st, Head(messages)), Tail(messages))

ImportTransaction(parse) ==
  LET st0 == [db |-> InsertMeta(EmptyDb, parse.meta), memberIdMap |-> <<>>,
              nicknameTracker |-> <<>>]
  IN  UpdateMemberNames(FoldWalk(FoldMembers(st0, parse.members),
                                 SortByTimestamp(parse.messages))).db

Conn == [db |-> db, memberIdMap |-> memberIdMap, nicknameTracker |-> nicknameTracker]

-----------------------------------------------------------------------------
(* importData: actions *)

\* no getMemberActivity call yet; imported: the call was made after importData
\* had returned a session id
NoActivity == [called |-> FALSE, imported |-> FALSE, filter |-> NoFilter,
               rows |-> <<>>]

NoSideFiles == [wal |-> FALSE, shm |-> FALSE]
NoResult == [op |-> "none", args |-> <<>>, value |-> <<>>]

\* sessionStore.currentSessionId when no session is selected
NoSession == "null"

\* a ChatRecordQuery; an absent number is NULL, absent keywords are <<>>
ChatRecordQuery(scrollToMessageId, memberId, startTs, endTs, keywords) ==
  [scrollToMessageId |-> scrollToMessageId, memberId |-> memberId,
   startTs |-> startTs, endTs |-> endTs, keywords |-> keywords]

\* const localQuery = ref<ChatRecordQuery>({})
EmptyQuery == ChatRecordQuery(NULL, NULL, NULL, NULL, <<>>)

\* the refs of MessageList after setup, under the query prop it was given
NewList(query) ==
  [query |-> query, messages |-> <<>>, isLoading |-> FALSE,
   isLoadingMore |-> FALSE, hasMoreBefore |-> FALSE, hasMoreAfter |-> FALSE,
   count |-> 0]

\* no session is selected, the drawer has not been opened
RendererIdle ==
  /\ currentSessionId = NoSession
  /\ messageList = NewList(EmptyQuery)
  /\ pending = <<>>

\* importData has not been called; nothing is on disk
NotStarted ==
  /\ pc = "start"
  /\ fileExists = FALSE
  /\ db = EmptyDb
  /\ committed = EmptyDb
  /\ memberIdMap = <<>>
  /\ nicknameTracker = <<>>
  /\ sortedMessages = <<>>
  /\ memberIndex = 1
  /\ msgIndex = 1
  /\ activity = NoActivity
  /\ sideFiles = NoSideFiles
  /\ result = NoResult
  /\ RendererIdle

Init ==
  /\ parseResult \in ParseInputs
  /\ pc = "start"
  /\ fileExists = FALSE
  /\ db = EmptyDb
  /\ committed = EmptyDb
  /\ memberIdMap = <<>>
  /\ nicknameTracker = <<>>
  /\ sortedMessages = <<>>
  /\ memberIndex = 1
  /\ msgIndex = 1
  /\ activity = NoActivity
  /\ sideFiles = NoSideFiles
  /\ otherFiles = <<>>
  /\ result = NoResult
  /\ RendererIdle

\* const db = createDatabase(sessionId): the file and the empty tables
CreateDatabase ==
  /\ pc = "start"
  /\ pc' = "created"
  /\ fileExists' = TRUE
  /\ db' = EmptyDb
  /\ committed' = EmptyDb
  /\ UNCHANGED <<listVars, sideFiles, otherFiles, result, parseResult, memberIdMap, nicknameTracker, sortedMessages,
                 memberIndex, msgIndex, activity>>

\* the transaction begins; insertMeta.run(...)
BeginAndInsertMeta ==
  /\ pc = "created"
  /\ db' = InsertMeta(db, parseResult.meta)
  /\ committed' = TxnStatement(committed, db')
  /\ pc' = "members"
  /\ UNCHANGED <<listVars, sideFiles, otherFiles, result, parseResult, fileExists, memberIdMap, nicknameTracker,
                 sortedMessages, memberIndex, msgIndex, activity>>

InsertMemberRow ==
  /\ pc = "members"
  /\ memberIndex <= Len(parseResult.members)
  /\ LET st == MemberStep(Conn, parseResult.members[memberIndex])
     IN  /\ db' = st.db
         /\ memberIdMap' = st.memberIdMap
         /\ committed' = TxnStatement(committed, st.db)
  /\ memberIndex' = memberIndex + 1
  /\ UNCHANGED <<listVars, sideFiles, otherFiles, result, parseResult, pc, fileExists, nicknameTracker, sortedMessages,
                 msgIndex, activity>>

SortMessages ==
  /\ pc = "members"
  /\ memberIndex > Len(parseResult.members)
  /\ sortedMessages' = SortByTimestamp(parseResult.messages)
  /\ pc' = "walk"
  /\ UNCHANGED <<listVars, sideFiles, otherFiles, result, parseResult, fileExists, db, committed, memberIdMap,
                 nicknameTracker, memberIndex, msgIndex, activity>>

WalkMessage ==
  /\ pc = "walk"
  /\ msgIndex <= Len(sortedMessages)
  /\ ~WalkThrows(Conn, sortedMessages[msgIndex])
  /\ LET st == WalkStep(Conn, sortedMessages[msgIndex])
     IN  /\ db' = st.db
         /\ nicknameTracker' = st.nicknameTracker
         /\ committed' = TxnStatement(committed, st.db)
  /\ msgIndex' = msgIndex + 1
  /\ UNCHANGED <<listVars, sideFiles, otherFiles, result, parseResult, pc, fileExists, memberIdMap, sortedMessages,
                 memberIndex, activity>>

\* an iteration throws: better-sqlite3 rolls the transaction back, the catch
\* block rethrows and the finally block closes the connection
ImportThrows ==
  /\ pc = "walk"
  /\ msgIndex <= Len(sortedMessages)
  /\ WalkThrows(Conn, sortedMessages[msgIndex])
  /\ committed' = TxnStatement(committed, WalkPartial(Conn, sortedMessages[msgIndex]).db)
  /\ db' = committed'
  /\ pc' = "failed"
  /\ UNCHANGED <<listVars, sideFiles, otherFiles, result, parseResult, fileExists, memberIdMap, nicknameTracker,
                 sortedMessages, memberIndex, msgIndex, activity>>

UpdateMemberNamesStep ==
  /\ pc = "walk"
  /\ msgIndex > Len(sortedMessages)
  /\ db' = UpdateMemberNames(Conn).db
  /\ committed' = TxnStatement(committed, db')
  /\ pc' = "commit"
  /\ UNCHANGED <<listVars, sideFiles, otherFiles, result, parseResult, fileExists, memberIdMap, nicknameTracker,
                 sortedMessages, memberIndex, msgIndex, activity>>

\* the transaction function returns: COMMIT; importData closes the
\* connection and returns sessionId
Commit ==
  /\ pc = "commit"
  /\ committed' = db
  /\ pc' = "done"
  /\ UNCHANGED <<listVars, sideFiles, otherFiles, result, parseResult, fileExists, db, memberIdMap, nicknameTracker,
                 sortedMessages, memberIndex, msgIndex, activity>>

ImportNext ==
  \/ CreateDatabase
  \/ BeginAndInsertMeta
  \/ InsertMemberRow
  \/ SortMessages
  \/ WalkMessage
  \/ ImportThrows
  \/ UpdateMemberNamesStep
  \/ Commit

-----------------------------------------------------------------------------
(* Analytics: getMemberActivity *)

\* mutant: the file is opened without the existence check
OpenWithoutCheck == <<committed>>

\* openDatabase(sessionId): null when the file is absent, else a read-only
\* connection, which sees the committed rows
OpenDatabase == IF fileExists THEN <<committed>> ELSE <<>>

TsGe(v) == [op |-> "ts >= ?", param |-> v]
TsLe(v) == [op |-> "ts <= ?", param |-> v]
NotSystem == [op |-> "m.name != system", param |-> NULL]

\* mutant: endTs is ignored
StartBoundOnly(filter) ==
  IF filter.startTs # NULL THEN <<[op |-> "ts >= ?", param |-> filter.startTs]>>
                           ELSE <<>>

\* buildTimeFilter: the conditions of the WHERE clause ('' when there is none)
BuildTimeFilter(filter) ==
  (IF filter.startTs # NULL THEN <<TsGe(filter.startTs)>> ELSE <<>>)
    \o (IF filter.endTs # NULL THEN <<TsLe(filter.endTs)>> ELSE <<>>)

\* mutant: the total counts system messages too
KeepClause(clause) == clause

\* buildSystemMessageFilter: the clause includes 'WHERE' iff it has a condition
BuildSystemMessageFilter(clause) ==
  IF Len(clause) > 0 THEN clause \o <<NotSystem>> ELSE <<NotSystem>>

\* a condition evaluated on a joined (message, member) row
Holds(cond, msg, m) ==
  CASE cond.op = "ts >= ?" -> msg.ts >= cond.param
    [] cond.op = "ts <= ?" -> msg.ts <= cond.param
    [] OTHER -> m.name # SystemSender

HoldsAll(clause, msg, m) == \A c \in DOMAIN clause : Holds(clause[c], msg, m)

\* SELECT COUNT(*) FROM message msg JOIN member m ON msg.sender_id = m.id <clause>
TotalMessages(store, filter) ==
  LET clause == BuildSystemMessageFilter(BuildTimeFilter(filter))
  IN  Cardinality({pair \in (DOMAIN store.message) \X (DOMAIN store.member) :
                     /\ store.message[pair[1]].sender_id = store.member[pair[2]].id
                     /\ HoldsAll(clause, store.message[pair[1]], store.member[pair[2]])})

\* COUNT(msg.id) of member m under
\* LEFT JOIN message msg ON m.id = msg.sender_id <msgFilterWithSystem>
MessageCount(store, filter, m) ==
  LET msgFilterWithSystem == BuildTimeFilter(filter) \o <<NotSystem>>
  IN  Cardinality({j \in DOMAIN store.message :
                     /\ store.message[j].sender_id = m.id
                     /\ HoldsAll(msgFilterWithSystem, store.message[j], m)})

\* Math.round(x) for x = num / den >= 0
Round(num, den) == (2 * num + den) \div (2 * den)

\* mutant: a fraction of 1 instead of a number from 0 to 100
PercentageAsFraction(messageCount, totalMessages) ==
  IF totalMessages > 0 THEN Round(messageCount * 100, totalMessages) ELSE 0

\* Math.round((messageCount / totalMessages) * 10000) / 100, in hundredths
Percentage(messageCount, totalMessages) ==
  IF totalMessages > 0 THEN Round(messageCount * 10000, totalMessages) ELSE 0

\* WHERE m.name != system GROUP BY m.id HAVING messageCount > 0, mapped to
\* MemberActivity objects
ActivityRows(store, filter) ==
  {[memberId |-> store.member[q].id,
    platformId |-> store.member[q].platform_id,
    name |-> store.member[q].name,
    messageCount |-> MessageCount(store, filter, store.member[q]),
    percentage |-> Percentage(MessageCount(store, filter, store.member[q]),
                              TotalMessages(store, filter))] :
     q \in {r \in DOMAIN store.member :
              /\ store.member[r].name # SystemSender
              /\ MessageCount(store, filter, store.member[r]) > 0}}

\* ORDER BY messageCount DESC
OrderedByCount(rows) ==
  \A a, b \in DOMAIN rows : a < b => rows[a].messageCount >= rows[b].messageCount

\* the orders SQLite may return the rows in: equal counts in any order
ActivityResults(store, filter) ==
  LET rowSet == ActivityRows(store, filter)
      n == Cardinality(rowSet)
  IN  {rows \in [1..n -> rowSet] :
         /\ \A a, b \in 1..n : a # b => rows[a] # rows[b]
         /\ OrderedByCount(rows)}

GetMemberActivity ==
  /\ \E filter \in Filters :
       \E rows \in (IF OpenDatabase = <<>> THEN {<<>>}
                    ELSE ActivityResults(OpenDatabase[1], filter)) :
         activity' = [called |-> TRUE, imported |-> (pc = "done"),
                      filter |-> filter, rows |-> rows]
  /\ result' = NoResult
  /\ UNCHANGED <<listVars, sideFiles, otherFiles, parseResult, pc, fileExists, db, committed, memberIdMap,
                 nicknameTracker, sortedMessages, memberIndex, msgIndex>>

Next == ImportNext \/ GetMemberActivity

Spec == Init /\ [][Next]_vars

-----------------------------------------------------------------------------
(* Queries on a stored session *)

MaxQueryMsgs == 3

\* text as the sequence of its characters; NullText is the SQL NULL of a
\* TEXT column
Hi == <<"h", "i">>
Yo == <<"y", "o">>
NullText == <<"NULL">>

ChatMessage(pid, name, ts, type, content) ==
  [senderPlatformId |-> pid, senderName |-> name, timestamp |-> ts,
   type |-> type, content |-> content]

\* text and non-text messages, empty and NULL contents, a system sender,
\* equal timestamps and timestamps in different hours
QueryMessages ==
  {ChatMessage("X", "Alice", 3500, 0, Hi),
   ChatMessage("Y", "Bob", 3500, 0, Yo),
   ChatMessage("X", "Alice", 3700, 0, Hi),
   ChatMessage("Y", "Bob", 3700, 1, Hi),
   ChatMessage("X", "Alice", 3700, 0, <<>>),
   ChatMessage("Y", "Bob", 3500, 0, NullText),
   ChatMessage("Y", SystemSender, 3700, 0, Hi)}

QueryInputs ==
  {[meta |-> ParseMeta,
    members |-> <<Member("X", "Alice"), Member("Y", "Bob")>>,
    messages |-> msgs] : msgs \in SeqsUpTo(QueryMessages, MaxQueryMsgs)}

QueryFilters == {NoFilter, TimeFilter(3700, NULL), TimeFilter(NULL, 3500),
                 TimeFilter(3600, 3600)}

\* offsets of the local time zone from UTC, in seconds
TimeZones == {0, 28800, -3600}

\* the connection state when the import transaction has run to its end on a
\* store file
ImportInto(store, parse) ==
  LET st0 == [db |-> InsertMeta(store, parse.meta), memberIdMap |-> <<>>,
              nicknameTracker |-> <<>>]
  IN  UpdateMemberNames(FoldWalk(FoldMembers(st0, parse.members),
                                 SortByTimestamp(parse.messages)))

ImportedConn(parse) == ImportInto(EmptyDb, parse)

\* the store of a session whose importData call has returned its id
StoredSession(parse) ==
  /\ parseResult = parse
  /\ pc = "done"
  /\ fileExists = TRUE
  /\ db = ImportedConn(parse).db
  /\ committed = ImportedConn(parse).db
  /\ memberIdMap = ImportedConn(parse).memberIdMap
  /\ nicknameTracker = ImportedConn(parse).nicknameTracker
  /\ sortedMessages = SortByTimestamp(parse.messages)
  /\ memberIndex = Len(parse.members) + 1
  /\ msgIndex = Len(parse.messages) + 1
  /\ activity = NoActivity
  /\ sideFiles = NoSideFiles
  /\ otherFiles = <<>>
  /\ result = NoResult

\* a session whose importData call has returned its id
Imported(parse) == StoredSession(parse) /\ RendererIdle

\* activity and result hold the return value of the most recent call: a call
\* that writes one of them clears the other
queryVars == <<parseResult, pc, fileExists, db, committed, memberIdMap,
               nicknameTracker, sortedMessages, memberIndex, msgIndex,
               sideFiles, otherFiles, listVars>>

ReadOps ==
  {"getAllSessions", "getSession", "getAvailableYears", "getHourlyActivity",
   "getDailyActivity", "getMessageTypeDistribution", "getTimeRange",
   "getMemberNameHistory", "getRecentMessages", "searchMessages",
   "getMessageContext", "getConversationBetween"}

\* importData is not running, and the call does not follow another read: the
\* readers keep no state between calls and change no file, so a read that
\* follows a read returns what it would return in its place
FreshCall ==
  /\ pc \in {"start", "done", "failed"}
  /\ result.op \notin ReadOps

\* the joined rows "FROM message msg JOIN member m ON msg.sender_id = m.id"
\* that satisfy the clause, as pairs of indexes
Joined(store, clause) ==
  {pair \in (DOMAIN store.message) \X (DOMAIN store.member) :
     /\ store.message[pair[1]].sender_id = store.member[pair[2]].id
     /\ HoldsAll(clause, store.message[pair[1]], store.member[pair[2]])}

\* mutant: the hour of the day counted from 1
HourFromOne(ts, tz) == (((ts + tz) \div 3600) % 24) + 1

\* CAST(strftime('%H', ts, 'unixepoch', 'localtime') AS INTEGER)
HourOf(ts, tz) == ((ts + tz) \div 3600) % 24

\* SELECT hour, COUNT(*) ... GROUP BY hour
HourlyRows(store, filter, tz) ==
  LET clauseWithSystem == BuildSystemMessageFilter(BuildTimeFilter(filter))
      rows == Joined(store, clauseWithSystem)
      hours == {HourOf(store.message[pair[1]].ts, tz) : pair \in rows}
  IN  {[hour |-> h,
        messageCount |->
          Cardinality({pair \in rows :
                         HourOf(store.message[pair[1]].ts, tz) = h})] :
       h \in hours}

\* "for (let h = 0; h < 24; h++)": one entry per hour, 0 where no row is found
HourlyActivity(store, filter, tz) ==
  LET rows == HourlyRows(store, filter, tz)
  IN  [i \in 1..24 |->
         LET found == {r \in rows : r.hour = i - 1}
         IN  [hour |-> i - 1,
              messageCount |-> IF found # {}
                                 THEN (CHOOSE r \in found : TRUE).messageCount
                                 ELSE 0]]

GetHourlyActivity ==
  /\ FreshCall
  /\ \E filter \in QueryFilters, tz \in TimeZones :
       result' = [op |-> "getHourlyActivity",
                  args |-> [fileExisted |-> fileExists, filter |-> filter,
                            tz |-> tz],
                  value |-> IF OpenDatabase = <<>> THEN <<>>
                            ELSE HourlyActivity(OpenDatabase[1], filter, tz)]
  /\ activity' = NoActivity
  /\ UNCHANGED queryVars

\* "T | null" as a sequence of at most one T
JsNull == <<>>

\* the orders in which SQLite may return the rows of a set under ORDER BY
\* key: ascending keys, equal keys in any order; n tells equal rows apart
RECURSIVE OrderBy(_)
OrderBy(rows) ==
  IF rows = {} THEN {<<>>}
  ELSE UNION {{<<first>> \o rest : rest \in OrderBy(rows \ {first})} :
                first \in {r \in rows : \A o \in rows : r.key <= o.key}}

Row(seq) == [q \in DOMAIN seq |-> seq[q].row]

\* the civil calendar of strftime: leap years, lengths of years and months
IsLeap(y) == (y % 4 = 0 /\ y % 100 # 0) \/ y % 400 = 0
DaysInYear(y) == IF IsLeap(y) THEN 366 ELSE 365
DaysInMonth(y, m) ==
  IF m = 2 THEN (IF IsLeap(y) THEN 29 ELSE 28)
  ELSE IF m \in {4, 6, 9, 11} THEN 30 ELSE 31

\* the year and the day of the year of day d counted from 1 January of year y
RECURSIVE YearOfDay(_, _)
YearOfDay(y, d) ==
  IF d < 0 THEN YearOfDay(y - 1, d + DaysInYear(y - 1))
  ELSE IF d >= DaysInYear(y) THEN YearOfDay(y + 1, d - DaysInYear(y))
  ELSE <<y, d>>

RECURSIVE MonthOfDay(_, _, _)
MonthOfDay(y, m, d) ==
  IF d >= DaysInMonth(y, m) THEN MonthOfDay(y, m + 1, d - DaysInMonth(y, m))
  ELSE <<m, d + 1>>

LocalDay(ts, tz) == (ts + tz) \div 86400

\* CAST(strftime('%Y', ts, 'unixepoch', 'localtime') AS INTEGER)
YearOf(ts, tz) == YearOfDay(1970, LocalDay(ts, tz))[1]

\* strftime('%Y-%m-%d', ts, 'unixepoch', 'localtime'), as <<year, month, day>>
DateOf(ts, tz) ==
  LET yd == YearOfDay(1970, LocalDay(ts, tz))
      md == MonthOfDay(yd[1], 1, yd[2])
  IN  <<yd[1], md[1], md[2]>>

\* SELECT DISTINCT year FROM message ORDER BY year DESC
AvailableYears(store, tz) ==
  LET years == {YearOf(store.message[q].ts, tz) : q \in DOMAIN store.message}
  IN  Row(CHOOSE s \in OrderBy({[key |-> 0 - y, row |-> y] : y \in years}) : TRUE)

GetAvailableYears ==
  /\ FreshCall
  /\ \E tz \in TimeZones :
       result' = [op |-> "getAvailableYears",
                  args |-> [fileExisted |-> fileExists, tz |-> tz],
                  value |-> IF OpenDatabase = <<>> THEN <<>>
                            ELSE AvailableYears(OpenDatabase[1], tz)]
  /\ activity' = NoActivity
  /\ UNCHANGED queryVars

\* SELECT date, COUNT(*) ... GROUP BY date ORDER BY date
DailyActivity(store, filter, tz) ==
  LET clauseWithSystem == BuildSystemMessageFilter(BuildTimeFilter(filter))
      rows == Joined(store, clauseWithSystem)
      days == {LocalDay(store.message[pair[1]].ts, tz) : pair \in rows}
      DayRow(d) ==
        LET pair == CHOOSE p \in rows : LocalDay(store.message[p[1]].ts, tz) = d
        IN  [date |-> DateOf(store.message[pair[1]].ts, tz),
             messageCount |->
               Cardinality({p \in rows :
                              LocalDay(store.message[p[1]].ts, tz) = d})]
  IN  Row(CHOOSE s \in OrderBy({[key |-> d, row |-> DayRow(d)] : d \in days}) :
            TRUE)

GetDailyActivity ==
  /\ FreshCall
  /\ \E filter \in QueryFilters, tz \in TimeZones :
       result' = [op |-> "getDailyActivity",
                  args |-> [fileExisted |-> fileExists, filter |-> filter,
                            tz |-> tz],
                  value |-> IF OpenDatabase = <<>> THEN <<>>
                            ELSE DailyActivity(OpenDatabase[1], filter, tz)]
  /\ activity' = NoActivity
  /\ UNCHANGED queryVars

\* SELECT msg.type, COUNT(*) as count ... GROUP BY msg.type ORDER BY count DESC
TypeDistributions(store, filter) ==
  LET clauseWithSystem == BuildSystemMessageFilter(BuildTimeFilter(filter))
      rows == Joined(store, clauseWithSystem)
      types == {store.message[pair[1]].type : pair \in rows}
      Count(t) == Cardinality({p \in rows : store.message[p[1]].type = t})
  IN  {Row(s) : s \in OrderBy({[key |-> 0 - Count(t),
                                row |-> [type |-> t, count |-> Count(t)]] :
                               t \in types})}

GetMessageTypeDistribution ==
  /\ FreshCall
  /\ \E filter \in QueryFilters :
       \E rows \in (IF OpenDatabase = <<>> THEN {<<>>}
                    ELSE TypeDistributions(OpenDatabase[1], filter)) :
         result' = [op |-> "getMessageTypeDistribution",
                    args |-> [fileExisted |-> fileExists, filter |-> filter],
                    value |-> rows]
  /\ activity' = NoActivity
  /\ UNCHANGED queryVars

\* SELECT MIN(ts) as start, MAX(ts) as end FROM message
TimeRange(store) ==
  LET stamps == {store.message[q].ts : q \in DOMAIN store.message}
  IN  IF stamps = {} THEN JsNull
      ELSE <<[start |-> CHOOSE t \in stamps : \A u \in stamps : t <= u,
              end |-> CHOOSE t \in stamps : \A u \in stamps : t >= u]>>

GetTimeRange ==
  /\ FreshCall
  /\ result' = [op |-> "getTimeRange", args |-> [fileExisted |-> fileExists],
                value |-> IF OpenDatabase = <<>> THEN JsNull
                          ELSE TimeRange(OpenDatabase[1])]
  /\ activity' = NoActivity
  /\ UNCHANGED queryVars

\* SELECT name, start_ts, end_ts FROM member_name_history
\* WHERE member_id = ? ORDER BY start_ts DESC
MemberNameHistories(store, memberId) ==
  LET found == {q \in DOMAIN store.member_name_history :
                  store.member_name_history[q].member_id = memberId}
  IN  {Row(s) :
         s \in OrderBy({[key |-> 0 - store.member_name_history[q].start_ts,
                         n |-> q,
                         row |-> [name |-> store.member_name_history[q].name,
                                  startTs |-> store.member_name_history[q].start_ts,
                                  endTs |-> store.member_name_history[q].end_ts]] :
                        q \in found})}

GetMemberNameHistory ==
  /\ FreshCall
  /\ \E memberId \in 1..2 :
       \E rows \in (IF OpenDatabase = <<>> THEN {<<>>}
                    ELSE MemberNameHistories(OpenDatabase[1], memberId)) :
         result' = [op |-> "getMemberNameHistory",
                    args |-> [fileExisted |-> fileExists, memberId |-> memberId],
                    value |-> rows]
  /\ activity' = NoActivity
  /\ UNCHANGED queryVars

SessionId == "chat_1000_abc"

\* the AnalysisSession of a store that has a meta row
Summary(id, store) ==
  [id |-> id,
   name |-> store.meta[1].name,
   platform |-> store.meta[1].platform,
   type |-> store.meta[1].type,
   importedAt |-> store.meta[1].imported_at,
   messageCount |-> Cardinality(Joined(store, <<NotSystem>>)),
   memberCount |-> Cardinality({q \in DOMAIN store.member :
                                  store.member[q].name # SystemSender})]

\* SELECT * FROM meta LIMIT 1; null when the table has no row
Session(id, store) ==
  IF Len(store.meta) = 0 THEN JsNull ELSE <<Summary(id, store)>>

GetSession ==
  /\ FreshCall
  /\ result' = [op |-> "getSession", args |-> [fileExisted |-> fileExists],
                value |-> IF OpenDatabase = <<>> THEN JsNull
                          ELSE Session(SessionId, OpenDatabase[1])]
  /\ activity' = NoActivity
  /\ UNCHANGED queryVars

\* a file of the database directory: whether new Database(dbPath) and the
\* first statements succeed on it, and the rows it holds
StoreFile(id, opens, store) == [id |-> id, opens |-> opens, store |-> store]

\* the rows of another session imported at time t
SessionAt(t) ==
  [ImportedConn([meta |-> ParseMeta, members |-> <<Member("X", "Alice")>>,
                 messages |-> <<ChatMessage("X", "Alice", 3500, 0, Hi)>>]).db
     EXCEPT !.meta[1].imported_at = t]

MaxOtherFiles == 3

\* per file id: a file that is no database, the file of a failed import, and
\* sessions imported before and after this one
OtherFileKinds(id) ==
  {StoreFile(id, FALSE, EmptyDb), StoreFile(id, TRUE, EmptyDb),
   StoreFile(id, TRUE, SessionAt(900)), StoreFile(id, TRUE, SessionAt(1100))}

OtherIds == <<"chat_900_a", "chat_1100_b", "chat_1200_c", "chat_1300_d">>

Directories ==
  UNION {{files \in [1..n -> UNION {OtherFileKinds(OtherIds[q]) : q \in 1..n}] :
            \A q \in 1..n : files[q].id = OtherIds[q]} : n \in 0..MaxOtherFiles}

InsertAt(seq, pos, x) ==
  SubSeq(seq, 1, pos - 1) \o <<x>> \o SubSeq(seq, pos, Len(seq))

\* fs.readdirSync(dbDir) filtered to *.db: this session's file, if it exists,
\* among the other files
Listings ==
  IF fileExists
    THEN {InsertAt(otherFiles, pos, StoreFile(SessionId, TRUE, committed)) :
            pos \in 1..(Len(otherFiles) + 1)}
    ELSE {otherFiles}

\* "for (const file of files)": the try block pushes a summary when the file
\* opens and has a meta row, the catch block skips the file
RECURSIVE ReadSessions(_)
ReadSessions(files) ==
  IF files = <<>> THEN <<>>
  ELSE (IF Head(files).opens /\ Len(Head(files).store.meta) > 0
          THEN <<Summary(Head(files).id, Head(files).store)>>
          ELSE <<>>) \o ReadSessions(Tail(files))

\* sessions.sort((a, b) => b.importedAt - a.importedAt): a stable sort
RECURSIVE InsertSession(_, _)
InsertSession(sorted, s) ==
  IF sorted = <<>> THEN <<s>>
  ELSE IF Head(sorted).importedAt < s.importedAt THEN <<s>> \o sorted
  ELSE <<Head(sorted)>> \o InsertSession(Tail(sorted), s)

\* mutant: the summaries stay in the order of the directory listing
KeepListingOrder(sessions) == sessions

RECURSIVE SortSessions(_)
SortSessions(sessions) ==
  IF sessions = <<>> THEN <<>>
  ELSE InsertSession(SortSessions(SubSeq(sessions, 1, Len(sessions) - 1)),
                     sessions[Len(sessions)])

GetAllSessions ==
  /\ FreshCall
  /\ \E files \in Listings :
       result' = [op |-> "getAllSessions", args |-> [files |-> files],
                  value |-> SortSessions(ReadSessions(files))]
  /\ activity' = NoActivity
  /\ UNCHANGED queryVars

\* deleteSession: unlinkSync removes each existing file in turn; when one
\* call throws, the files after it are kept and the catch block returns false.
\* args holds the files that existed before the call, value what the call
\* returned and the files that exist after it
DeleteSession ==
  /\ pc \in {"start", "done", "failed"}
  /\ \E failsAt \in 0..3 :
       LET primaryThrows == fileExists /\ failsAt = 1
           walThrows == ~primaryThrows /\ sideFiles.wal /\ failsAt = 2
           shmThrows == ~primaryThrows /\ ~walThrows /\ sideFiles.shm /\ failsAt = 3
       IN  /\ failsAt # 0 => (primaryThrows \/ walThrows \/ shmThrows)
           /\ fileExists' = (fileExists /\ primaryThrows)
           /\ sideFiles' = [wal |-> sideFiles.wal /\ (primaryThrows \/ walThrows),
                            shm |-> sideFiles.shm
                                      /\ (primaryThrows \/ walThrows \/ shmThrows)]
           /\ result' = [op |-> "deleteSession",
                         args |-> [primary |-> fileExists, wal |-> sideFiles.wal,
                                   shm |-> sideFiles.shm],
                         value |-> [returned |-> (failsAt = 0),
                                    primary |-> fileExists',
                                    wal |-> sideFiles'.wal,
                                    shm |-> sideFiles'.shm]]
  /\ activity' = NoActivity
  /\ UNCHANGED <<parseResult, pc, db, committed, memberIdMap, nicknameTracker,
                 sortedMessages, memberIndex, msgIndex, otherFiles, listVars>>

\* SQLite in WAL mode creates the -wal and -shm files when a connection
\* writes or reads, and removes them when the last connection closes
WalSideFiles ==
  /\ fileExists
  /\ pc \in {"done", "failed"}
  /\ \E files \in [wal : BOOLEAN, shm : BOOLEAN] :
       /\ files # sideFiles
       /\ sideFiles' = files
  /\ UNCHANGED <<parseResult, pc, fileExists, db, committed, memberIdMap,
                 nicknameTracker, sortedMessages, memberIndex, msgIndex,
                 activity, otherFiles, result, listVars>>

MaxImports == 2

\* a message of the parse result makes the import transaction throw
ParseThrows(parse) ==
  \E q \in DOMAIN parse.messages :
     /\ parse.messages[q].senderName = Undefined
     /\ \E r \in DOMAIN parse.members :
          parse.members[r].platformId = parse.messages[q].senderPlatformId

\* a later importData call for which generateSessionId returns the id of this
\* session: createDatabase opens the existing file, CREATE TABLE IF NOT
\* EXISTS keeps its tables, and the transaction runs on its rows
ImportDataSameId ==
  /\ pc \in {"done", "failed"}
  /\ fileExists
  /\ Len(committed.meta) < MaxImports
  /\ IF ParseThrows(parseResult)
       THEN /\ result' = [op |-> "importData",
                          args |-> [fileExisted |-> TRUE, before |-> committed],
                          value |-> "TypeError"]
            /\ UNCHANGED <<db, committed, memberIdMap, nicknameTracker>>
       ELSE LET conn == ImportInto(committed, parseResult)
            IN  /\ result' = [op |-> "importData",
                              args |-> [fileExisted |-> TRUE, before |-> committed],
                              value |-> SessionId]
                /\ db' = conn.db
                /\ committed' = conn.db
                /\ memberIdMap' = conn.memberIdMap
                /\ nicknameTracker' = conn.nicknameTracker
  /\ activity' = NoActivity
  /\ UNCHANGED <<parseResult, pc, fileExists, sortedMessages, memberIndex,
                 msgIndex, sideFiles, otherFiles, listVars>>

\* member.account_name and member.group_nickname of the core schema: the
\* member's name, and no group nickname
AccountName(m) == m.name

\* COALESCE(m.group_nickname, m.account_name, m.platform_id)
SenderName(m) == AccountName(m)

\* the columns every query of this module selects
SearchMessageResult(msg, m) ==
  [id |-> msg.id, senderName |-> SenderName(m),
   senderPlatformId |-> m.platform_id, content |-> msg.content,
   timestamp |-> msg.ts, type |-> msg.type]

\* the first rows, at most n, of the orders OrderBy allows
RECURSIVE OrderByLimit(_, _)
OrderByLimit(rows, n) ==
  IF rows = {} \/ n = 0 THEN {<<>>}
  ELSE UNION {{<<first>> \o rest : rest \in OrderByLimit(rows \ {first}, n - 1)} :
                first \in {r \in rows : \A o \in rows : r.key <= o.key}}

\* ORDER BY msg.ts DESC LIMIT n: equal timestamps in any order
NewestFirst(store, pairs, n) ==
  {Row(s) :
     s \in OrderByLimit({[key |-> 0 - store.message[pair[1]].ts,
                          n |-> store.message[pair[1]].id,
                          row |-> SearchMessageResult(store.message[pair[1]],
                                                      store.member[pair[2]])] :
                         pair \in pairs}, n)}

\* OFFSET offset of the rows up to LIMIT + OFFSET
Offset(rows, offset) == SubSeq(rows, offset + 1, Len(rows))

\* Array.prototype.reverse
Reverse(seq) == [q \in 1..Len(seq) |-> seq[Len(seq) + 1 - q]]

QueryLimits == {0, 1, 2}

\* mutant: messages of every type count
AnyTypeRecentFilter(msg, m) ==
  /\ AccountName(m) # SystemSender
  /\ msg.content # NullText
  /\ msg.content # <<>>

\* systemFilter of getRecentMessages
RecentFilter(msg, m) ==
  /\ AccountName(m) # SystemSender
  /\ msg.type = 0
  /\ msg.content # NullText
  /\ msg.content # <<>>

RecentMatches(store, filter) ==
  {pair \in Joined(store, BuildTimeFilter(filter)) :
     RecentFilter(store.message[pair[1]], store.member[pair[2]])}

RecentMessages(store, filter, limit) ==
  {[messages |-> Reverse(rows),
    total |-> Cardinality(RecentMatches(store, filter))] :
     rows \in NewestFirst(store, RecentMatches(store, filter), limit)}

NoMessages == [messages |-> <<>>, total |-> 0]

GetRecentMessages ==
  /\ FreshCall
  /\ \E filter \in QueryFilters, limit \in QueryLimits :
       \E value \in (IF OpenDatabase = <<>> THEN {NoMessages}
                     ELSE RecentMessages(OpenDatabase[1], filter, limit)) :
         result' = [op |-> "getRecentMessages",
                    args |-> [fileExisted |-> fileExists, filter |-> filter,
                              limit |-> limit],
                    value |-> value]
  /\ activity' = NoActivity
  /\ UNCHANGED queryVars

\* content LIKE '%keyword%' for a keyword of lower-case letters
Like(content, keyword) ==
  /\ content # NullText
  /\ \E q \in 0..(Len(content) - Len(keyword)) :
       SubSeq(content, q + 1, q + Len(keyword)) = keyword

KeywordLists == {<<>>, <<<<"i">>>>, <<Yo, <<"h">>>>}
SearchFilters == {NoFilter, TimeFilter(3600, NULL)}
SearchSenders == {NULL, 1}
SearchLimits == {1, 2}
SearchOffsets == {0, 1, 2}

\* keywordCondition: '1=1' or the OR of one LIKE per keyword
KeywordCondition(keywords, content) ==
  Len(keywords) = 0 \/ \E k \in DOMAIN keywords : Like(content, keywords[k])

SearchMatches(store, keywords, filter, senderId) ==
  {pair \in Joined(store, BuildTimeFilter(filter)) :
     /\ KeywordCondition(keywords, store.message[pair[1]].content)
     /\ AccountName(store.member[pair[2]]) # SystemSender
     /\ senderId # NULL => store.message[pair[1]].sender_id = senderId}

SearchResults(store, keywords, filter, limit, offset, senderId) ==
  {[messages |-> Offset(rows, offset),
    total |-> Cardinality(SearchMatches(store, keywords, filter, senderId))] :
     rows \in NewestFirst(store, SearchMatches(store, keywords, filter, senderId),
                          limit + offset)}

\* the ids of the messages of a page
Ids(messages) == {messages[q].id : q \in DOMAIN messages}

\* a caller reads the next page of the search it has just read a page of.
\* args.page numbers the pages of a run that began at offset 0, and args.seen
\* holds the ids of the pages read before
NextPage(keywords, filter, limit, offset, senderId) ==
  /\ result.op = "searchMessages"
  /\ result.args.page > 0
  /\ result.args.keywords = keywords
  /\ result.args.filter = filter
  /\ result.args.limit = limit
  /\ result.args.senderId = senderId
  /\ offset = result.args.offset + limit

SearchMessages ==
  /\ pc \in {"start", "done", "failed"}
  /\ \E keywords \in KeywordLists, filter \in SearchFilters,
        limit \in SearchLimits, offset \in SearchOffsets,
        senderId \in SearchSenders :
       /\ FreshCall \/ NextPage(keywords, filter, limit, offset, senderId)
       /\ \E value \in (IF OpenDatabase = <<>> THEN {NoMessages}
                        ELSE SearchResults(OpenDatabase[1], keywords, filter,
                                           limit, offset, senderId)) :
            result' = [op |-> "searchMessages",
                       args |-> [fileExisted |-> fileExists,
                                 keywords |-> keywords, filter |-> filter,
                                 limit |-> limit, offset |-> offset,
                                 senderId |-> senderId,
                                 page |-> IF FreshCall
                                            THEN (IF offset = 0 THEN 1 ELSE 0)
                                            ELSE result.args.page + 1,
                                 seen |-> IF FreshCall THEN {}
                                          ELSE result.args.seen
                                                 \cup Ids(result.value.messages)],
                       value |-> value]
  /\ activity' = NoActivity
  /\ UNCHANGED queryVars

MessageIds(store) == {store.message[q].id : q \in DOMAIN store.message}

Max(S) == CHOOSE x \in S : \A y \in S : x >= y
Min(S) == CHOOSE x \in S : \A y \in S : x <= y

\* SELECT id FROM message WHERE id < ? ORDER BY id DESC LIMIT ?
RECURSIVE Before(_, _, _)
Before(store, messageId, contextSize) ==
  LET below == {i \in MessageIds(store) : i < messageId}
  IN  IF contextSize = 0 \/ below = {} THEN {}
      ELSE {Max(below)} \cup Before(store, Max(below), contextSize - 1)

\* SELECT id FROM message WHERE id > ? ORDER BY id ASC LIMIT ?
RECURSIVE After(_, _, _)
After(store, messageId, contextSize) ==
  LET above == {i \in MessageIds(store) : i > messageId}
  IN  IF contextSize = 0 \/ above = {} THEN {}
      ELSE {Min(above)} \cup After(store, Min(above), contextSize - 1)

\* mutant: the target ids are not added to the Set
NeighboursOnly(store, ids, contextSize) ==
  UNION {Before(store, ids[q], contextSize) \cup After(store, ids[q], contextSize) :
           q \in DOMAIN ids}

\* "for (const messageId of ids)": the Set of the target ids and their
\* neighbours
ContextIds(store, ids, contextSize) ==
  UNION {{ids[q]} \cup Before(store, ids[q], contextSize)
                  \cup After(store, ids[q], contextSize) : q \in DOMAIN ids}

\* SELECT ... WHERE msg.id IN (...) ORDER BY msg.id ASC
MessageContext(store, ids, contextSize) ==
  LET pairs == {pair \in Joined(store, <<>>) :
                  store.message[pair[1]].id \in ContextIds(store, ids, contextSize)}
  IN  Row(CHOOSE s \in OrderBy({[key |-> store.message[pair[1]].id, n |-> 0,
                                 row |-> SearchMessageResult(store.message[pair[1]],
                                                             store.member[pair[2]])] :
                                pair \in pairs}) : TRUE)

ContextTargets == {<<>>, <<1, 3>>} \cup {<<i>> : i \in 0..(MaxQueryMsgs + 1)}
ContextSizes == {0, 1, 2}

GetMessageContext ==
  /\ FreshCall
  /\ \E ids \in ContextTargets, contextSize \in ContextSizes :
       result' = [op |-> "getMessageContext",
                  args |-> [fileExisted |-> fileExists, ids |-> ids,
                            contextSize |-> contextSize],
                  value |-> IF OpenDatabase = <<>> \/ Len(ids) = 0 THEN <<>>
                            ELSE MessageContext(OpenDatabase[1], ids, contextSize)]
  /\ activity' = NoActivity
  /\ UNCHANGED queryVars

\* SELECT ... as name FROM member WHERE id = ?
MemberById(store, memberId) ==
  {store.member[q] : q \in {r \in DOMAIN store.member :
                              store.member[r].id = memberId}}

NoConversation ==
  [messages |-> <<>>, total |-> 0, member1Name |-> "", member2Name |-> ""]

\* mutant: only the messages of the first member
FirstMemberOnly(msg, memberId1, memberId2) == msg.sender_id = memberId1

\* msg.sender_id IN (?, ?)
SentByEither(msg, memberId1, memberId2) == msg.sender_id \in {memberId1, memberId2}

ConversationMatches(store, memberId1, memberId2, filter) ==
  {pair \in Joined(store, BuildTimeFilter(filter)) :
     /\ SentByEither(store.message[pair[1]], memberId1, memberId2)
     /\ store.message[pair[1]].content # NullText
     /\ store.message[pair[1]].content # <<>>}

Conversations(store, memberId1, memberId2, filter, limit) ==
  IF MemberById(store, memberId1) = {} \/ MemberById(store, memberId2) = {}
    THEN {NoConversation}
    ELSE {[messages |-> Reverse(rows),
           total |-> Cardinality(ConversationMatches(store, memberId1,
                                                     memberId2, filter)),
           member1Name |-> SenderName(CHOOSE m \in MemberById(store, memberId1) : TRUE),
           member2Name |-> SenderName(CHOOSE m \in MemberById(store, memberId2) : TRUE)] :
            rows \in NewestFirst(store, ConversationMatches(store, memberId1,
                                                            memberId2, filter),
                                 limit)}

ConversationFilters == {NoFilter, TimeFilter(NULL, 3500)}

GetConversationBetween ==
  /\ FreshCall
  /\ \E memberId1 \in 1..3, memberId2 \in 1..3,
        filter \in ConversationFilters, limit \in QueryLimits :
       \E value \in (IF OpenDatabase = <<>> THEN {NoConversation}
                     ELSE Conversations(OpenDatabase[1], memberId1, memberId2,
                                        filter, limit)) :
         result' = [op |-> "getConversationBetween",
                    args |-> [fileExisted |-> fileExists, memberId1 |-> memberId1,
                              memberId2 |-> memberId2, filter |-> filter,
                              limit |-> limit],
                    value |-> value]
  /\ activity' = NoActivity
  /\ UNCHANGED queryVars

MaxStoreMsgs == 1

\* messages in two years, of a sender without a name and of a system sender
StoreMessages ==
  {ChatMessage("X", "Alice", 3500, 0, Hi),
   ChatMessage("Y", "Bob", 31536000, 1, Yo),
   ChatMessage("X", Undefined, 3700, 0, Hi),
   ChatMessage("Y", SystemSender, 3500, 0, Hi)}

StoreInputs ==
  {[meta |-> ParseMeta,
    members |-> <<Member("X", "Alice"), Member("Y", "Bob")>>,
    messages |-> msgs] : msgs \in SeqsUpTo(StoreMessages, MaxStoreMsgs)}

StoreInit ==
  /\ parseResult \in StoreInputs
  /\ NotStarted
  /\ otherFiles = <<>>

StoreNext ==
  \/ ImportNext
  \/ ImportDataSameId
  \/ DeleteSession
  \/ WalSideFiles
  \/ GetAllSessions
  \/ GetSession
  \/ GetAvailableYears
  \/ GetMemberActivity
  \/ GetHourlyActivity
  \/ GetDailyActivity
  \/ GetMessageTypeDistribution
  \/ GetTimeRange
  \/ GetMemberNameHistory
  \/ GetRecentMessages
  \/ SearchMessages
  \/ GetMessageContext
  \/ GetConversationBetween

StoreSpec == StoreInit /\ [][StoreNext]_vars

DirInit ==
  /\ parseResult \in StoreInputs
  /\ NotStarted
  /\ otherFiles \in Directories

DirNext ==
  \/ ImportNext
  \/ DeleteSession
  \/ GetAllSessions

DirSpec == DirInit /\ [][DirNext]_vars

QueryInit == \E parse \in QueryInputs : Imported(parse)

QueryNext ==
  \/ GetHourlyActivity
  \/ GetRecentMessages
  \/ SearchMessages
  \/ GetMessageContext
  \/ GetConversationBetween

QuerySpec == QueryInit /\ [][QueryNext]_vars

-----------------------------------------------------------------------------
(* MessageList: the paged message list of the chat record viewer *)

\* the page of loadInitialMessages / loadMoreBefore / loadMoreAfter (50 in
\* the source), the messages of the stored conversation, and the requests
\* the viewer may have in flight
PageSize == 2
MaxListMsgs == 7
MaxInFlight == 2

\* the page of getRecentMessages, two pages long (100 in the source)
RecentLimit == 2 * PageSize

\* a conversation of two members: pairs of equal timestamps, every fourth
\* message not a text message, every third with another text
ListMessage(k) ==
  ChatMessage(IF k % 2 = 1 THEN "X" ELSE "Y",
              IF k % 2 = 1 THEN "Alice" ELSE "Bob",
              3500 + 100 * (k \div 2),
              IF k % 4 = 0 THEN 1 ELSE 0,
              IF k % 3 = 0 THEN Yo ELSE Hi)

ListInputs ==
  {[meta |-> ParseMeta,
    members |-> <<Member("X", "Alice"), Member("Y", "Bob")>>,
    messages |-> [k \in 1..n |-> ListMessage(k)]] : n \in {0, PageSize, MaxListMsgs}}

\* the queries of a viewer opened on a message: every anchor id of the
\* conversation and one that is not stored, alone and with a member, a
\* keyword or a time filter; and the queries without an anchor
ListFilters ==
  {ChatRecordQuery(NULL, NULL, NULL, NULL, <<>>),
   ChatRecordQuery(NULL, 1, NULL, NULL, <<>>),
   ChatRecordQuery(NULL, NULL, NULL, NULL, <<Yo>>),
   ChatRecordQuery(NULL, NULL, 3600, 3700, <<>>)}

PageQueries ==
  {[f EXCEPT !.scrollToMessageId = target] :
     f \in ListFilters, target \in {NULL} \cup (1..(MaxListMsgs + 1))}

\* the queries the drawer hands over while requests are in flight
DrawerQueries ==
  {EmptyQuery,
   ChatRecordQuery(1, NULL, NULL, NULL, <<>>),
   ChatRecordQuery(PageSize + 2, NULL, NULL, NULL, <<>>),
   ChatRecordQuery(PageSize + 2, 1, NULL, NULL, <<>>)}

storeVars == <<parseResult, pc, fileExists, db, committed, memberIdMap,
               nicknameTracker, sortedMessages, memberIndex, msgIndex,
               activity, sideFiles, otherFiles, result>>

\* "if (targetId)" on a number or undefined
Truthy(n) == n # NULL /\ n # 0

\* buildFilterParams(query)
BuildFilterParams(query) ==
  [filter |-> IF Truthy(query.startTs) \/ Truthy(query.endTs)
                THEN TimeFilter(query.startTs, query.endTs) ELSE NoFilter,
   senderId |-> query.memberId,
   keywords |-> query.keywords]

\* the joined rows that meet the filters handed to getMessagesBefore and
\* getMessagesAfter
PageFilter(store, params) ==
  {pair \in Joined(store, BuildTimeFilter(params.filter)) :
     /\ KeywordCondition(params.keywords, store.message[pair[1]].content)
     /\ params.senderId # NULL => store.message[pair[1]].sender_id = params.senderId}

\* the rows of the pairs in ascending id order
RowsById(store, pairs) ==
  Row(CHOOSE s \in OrderBy({[key |-> store.message[pair[1]].id, n |-> 0,
                             row |-> SearchMessageResult(store.message[pair[1]],
                                                         store.member[pair[2]])] :
                            pair \in pairs}) : TRUE)

NoPage == [messages |-> <<>>, hasMore |-> FALSE]

\* getMessagesBefore: the limit messages with the largest ids below id that
\* meet the filters, ascending, and whether more remain beyond the page
MessagesBefore(store, id, limit, params) ==
  LET below == {pair \in PageFilter(store, params) : store.message[pair[1]].id < id}
      page == {pair \in below :
                 Cardinality({o \in below : store.message[o[1]].id
                                              > store.message[pair[1]].id}) < limit}
  IN  [messages |-> RowsById(store, page), hasMore |-> Cardinality(below) > limit]

\* getMessagesAfter: the limit messages with the smallest ids above id
MessagesAfter(store, id, limit, params) ==
  LET above == {pair \in PageFilter(store, params) : store.message[pair[1]].id > id}
      page == {pair \in above :
                 Cardinality({o \in above : store.message[o[1]].id
                                              < store.message[pair[1]].id}) < limit}
  IN  [messages |-> RowsById(store, page), hasMore |-> Cardinality(above) > limit]

\* window.aiApi.*: the call on the session's store
GetMessagesBefore(id, limit, params) ==
  IF OpenDatabase = <<>> THEN NoPage
  ELSE MessagesBefore(OpenDatabase[1], id, limit, params)
GetMessagesAfter(id, limit, params) ==
  IF OpenDatabase = <<>> THEN NoPage
  ELSE MessagesAfter(OpenDatabase[1], id, limit, params)
GetTargetMessages(id) ==
  IF OpenDatabase = <<>> THEN <<>> ELSE MessageContext(OpenDatabase[1], <<id>>, 0)
GetRecentPages(filter) ==
  IF OpenDatabase = <<>> THEN {NoMessages}
  ELSE RecentMessages(OpenDatabase[1], filter, RecentLimit)

\* a request in flight: the function that awaits it, the call, the query
\* read by toRaw(props.query) when it was issued, the reference id, and the
\* pages loadInitialMessages holds while it awaits the target message.
\* superseded tells that loadInitialMessages has been called since; the
\* component keeps no such mark
Request(fn, api, query, referenceId) ==
  [fn |-> fn, api |-> api, query |-> query, referenceId |-> referenceId,
   pages |-> <<>>, superseded |-> FALSE]

Supersede(requests) ==
  [q \in DOMAIN requests |-> [requests[q] EXCEPT !.superseded = TRUE]]

RemoveAt(seq, q) == SubSeq(seq, 1, q - 1) \o SubSeq(seq, q + 1, Len(seq))

\* loadInitialMessages up to its first await, the query prop being query
LoadInitialMessages(query) ==
  IF currentSessionId = NoSession
    THEN /\ messageList' = [messageList EXCEPT !.query = query,
                                               !.messages = <<>>, !.count = 0]
         /\ pending' = Supersede(pending)
    ELSE /\ messageList' = [messageList EXCEPT !.query = query,
                                               !.isLoading = TRUE,
                                               !.messages = <<>>]
         /\ pending' =
              Append(Supersede(pending),
                     Request("loadInitialMessages",
                             IF Truthy(query.scrollToMessageId)
                               THEN "Promise.all" ELSE "getRecentMessages",
                             query, query.scrollToMessageId))

\* the drawer assigns localQuery: watch(() => props.query) calls
\* loadInitialMessages
ChangeQuery ==
  /\ Len(pending) < MaxInFlight
  /\ \E query \in DrawerQueries :
       /\ query # messageList.query
       /\ LoadInitialMessages(query)
  /\ UNCHANGED <<storeVars, currentSessionId>>

\* the drawer opens and calls refresh()
Refresh ==
  /\ Len(pending) < MaxInFlight
  /\ LoadInitialMessages(messageList.query)
  /\ UNCHANGED <<storeVars, currentSessionId>>

\* refresh() with no request in flight
RefreshSettled == pending = <<>> /\ Refresh

\* the early returns of loadMoreBefore
CanLoadMoreBefore(l) ==
  /\ ~l.isLoadingMore
  /\ l.hasMoreBefore
  /\ Len(l.messages) # 0
  /\ currentSessionId # NoSession

\* mutant: loadMoreAfter without the isLoadingMore test
HasMoreAfterOnly(l) ==
  /\ l.hasMoreAfter
  /\ Len(l.messages) # 0
  /\ currentSessionId # NoSession

\* the early returns of loadMoreAfter
CanLoadMoreAfter(l) ==
  /\ ~l.isLoadingMore
  /\ l.hasMoreAfter
  /\ Len(l.messages) # 0
  /\ currentSessionId # NoSession

\* loadMoreBefore and loadMoreAfter up to their await, on the component
\* state st = [list, pending]
LoadMoreBefore(st) ==
  IF CanLoadMoreBefore(st.list)
    THEN [list |-> [st.list EXCEPT !.isLoadingMore = TRUE],
          pending |-> Append(st.pending,
                             Request("loadMoreBefore", "getMessagesBefore",
                                     st.list.query, st.list.messages[1].id))]
    ELSE st

LoadMoreAfter(st) ==
  IF CanLoadMoreAfter(st.list)
    THEN [list |-> [st.list EXCEPT !.isLoadingMore = TRUE],
          pending |-> Append(st.pending,
                             Request("loadMoreAfter", "getMessagesAfter",
                                     st.list.query,
                                     st.list.messages[Len(st.list.messages)].id))]
    ELSE st

\* the scroll container is in the DOM: v-if="isLoading", v-else-if
\* "messages.length === 0", v-else
ContainerRendered == ~messageList.isLoading /\ Len(messageList.messages) # 0

\* a scroll event that makes handleScroll issue a request; nearTop is
\* scrollTop < 100, nearBottom is distanceFromBottom < 100
HandleScroll ==
  /\ ContainerRendered
  /\ ~messageList.isLoadingMore
  /\ Len(pending) <= MaxInFlight
  /\ \E nearTop, nearBottom \in BOOLEAN :
       LET st == [list |-> messageList, pending |-> pending]
           top == IF nearTop /\ st.list.hasMoreBefore THEN LoadMoreBefore(st) ELSE st
           bottom == IF nearBottom /\ top.list.hasMoreAfter THEN LoadMoreAfter(top)
                     ELSE top
       IN  /\ bottom # st
           /\ messageList' = bottom.list
           /\ pending' = bottom.pending
  /\ UNCHANGED <<storeVars, currentSessionId>>

\* mutant: the list without the target message
PagesOnly(before, target, after) == before \o after

\* [...beforeResult.messages, ...targetMessages, ...afterResult.messages]
InitialList(before, target, after) == before \o target \o after

\* the request at position q resolves and the function that awaits it runs
\* to its next await or to its end
Resolve ==
  /\ \E q \in DOMAIN pending :
       LET r == pending[q]
           params == BuildFilterParams(r.query)
       IN  CASE r.api = "Promise.all" ->
                  /\ pending' =
                       [pending EXCEPT
                          ![q].api = "getMessageContext",
                          ![q].pages =
                             [before |-> GetMessagesBefore(r.referenceId, PageSize, params),
                              after |-> GetMessagesAfter(r.referenceId, PageSize, params)]]
                  /\ UNCHANGED messageList
             [] r.api = "getMessageContext" ->
                  LET loaded == InitialList(r.pages.before.messages,
                                            GetTargetMessages(r.referenceId),
                                            r.pages.after.messages)
                  IN  /\ messageList' =
                           [messageList EXCEPT !.messages = loaded,
                                               !.hasMoreBefore = r.pages.before.hasMore,
                                               !.hasMoreAfter = r.pages.after.hasMore,
                                               !.count = Len(loaded),
                                               !.isLoading = FALSE]
                      /\ pending' = RemoveAt(pending, q)
             [] r.api = "getRecentMessages" ->
                  /\ \E recent \in GetRecentPages(params.filter) :
                       messageList' =
                         [messageList EXCEPT !.messages = recent.messages,
                                             !.hasMoreBefore =
                                                (Len(recent.messages) >= RecentLimit),
                                             !.hasMoreAfter = FALSE,
                                             !.count = Len(recent.messages),
                                             !.isLoading = FALSE]
                  /\ pending' = RemoveAt(pending, q)
             [] r.api = "getMessagesBefore" ->
                  LET page == GetMessagesBefore(r.referenceId, PageSize, params)
                      merged == page.messages \o messageList.messages
                  IN  /\ messageList' =
                           IF Len(page.messages) > 0
                             THEN [messageList EXCEPT !.messages = merged,
                                                      !.count = Len(merged),
                                                      !.hasMoreBefore = page.hasMore,
                                                      !.isLoadingMore = FALSE]
                             ELSE [messageList EXCEPT !.hasMoreBefore = page.hasMore,
                                                      !.isLoadingMore = FALSE]
                      /\ pending' = RemoveAt(pending, q)
             [] r.api = "getMessagesAfter" ->
                  LET page == GetMessagesAfter(r.referenceId, PageSize, params)
                      merged == messageList.messages \o page.messages
                  IN  /\ messageList' =
                           IF Len(page.messages) > 0
                             THEN [messageList EXCEPT !.messages = merged,
                                                      !.count = Len(merged),
                                                      !.hasMoreAfter = page.hasMore,
                                                      !.isLoadingMore = FALSE]
                             ELSE [messageList EXCEPT !.hasMoreAfter = page.hasMore,
                                                      !.isLoadingMore = FALSE]
                      /\ pending' = RemoveAt(pending, q)
  /\ UNCHANGED <<storeVars, currentSessionId>>

\* the request at position q rejects: the catch and finally blocks run
Reject ==
  /\ \E q \in DOMAIN pending :
       /\ messageList' =
            IF pending[q].fn = "loadInitialMessages"
              THEN [messageList EXCEPT !.messages = <<>>, !.count = 0,
                                       !.isLoading = FALSE]
              ELSE [messageList EXCEPT !.isLoadingMore = FALSE]
       /\ pending' = RemoveAt(pending, q)
  /\ UNCHANGED <<storeVars, currentSessionId>>

\* a viewer that opens on one query and pages through its messages, every
\* request resolving
PageInit ==
  \E parse \in ListInputs, query \in PageQueries :
     /\ StoredSession(parse)
     /\ currentSessionId = SessionId
     /\ messageList = NewList(query)
     /\ pending = <<>>

PageNext ==
  \/ RefreshSettled
  \/ HandleScroll
  \/ Resolve

PageSpec == PageInit /\ [][PageNext]_vars

\* a viewer whose query changes while requests are in flight, the requests
\* resolving or rejecting in any order
ListInit ==
  \E parse \in ListInputs :
     /\ StoredSession(parse)
     /\ currentSessionId \in {SessionId, NoSession}
     /\ messageList = NewList(EmptyQuery)
     /\ pending = <<>>

ListNext ==
  \/ ChangeQuery
  \/ Refresh
  \/ HandleScroll
  \/ Resolve
  \/ Reject

ListSpec == ListInit /\ [][ListNext]_vars

-----------------------------------------------------------------------------
(* Vocabulary of the properties *)

Range(seq) == {seq[q] : q \in DOMAIN seq}

HistoryOf(store, memberId) ==
  {r \in Range(store.member_name_history) : r.member_id = memberId}
OpenRows(store, memberId) == {r \in HistoryOf(store, memberId) : r.end_ts = NULL}
ClosedRows(store, memberId) == {r \in HistoryOf(store, memberId) : r.end_ts # NULL}
MessagesOf(store, memberId) ==
  {r \in Range(store.message) : r.sender_id = memberId}

ListedIds == {parseResult.members[q].platformId : q \in DOMAIN parseResult.members}
\* positions of the input messages whose sender is in the member list
KnownMessages ==
  {j \in DOMAIN parseResult.messages :
     parseResult.messages[j].senderPlatformId \in ListedIds}
InputOf(pid) ==
  {j \in DOMAIN parseResult.messages :
     parseResult.messages[j].senderPlatformId = pid}

DistinctTimestamps(messages) ==
  \A a, b \in DOMAIN messages :
     a # b => messages[a].timestamp # messages[b].timestamp
OutOfOrder(messages) ==
  \E a, b \in DOMAIN messages :
     a < b /\ messages[a].timestamp > messages[b].timestamp

InRange(ts, filter) ==
  /\ filter.startTs # NULL => ts >= filter.startTs
  /\ filter.endTs # NULL => ts <= filter.endTs

\* the rows a getMemberActivity call read from: nothing before the commit
StoreReadBy(call) == IF call.imported THEN committed ELSE EmptyDb

SenderOf(store, msg) ==
  CHOOSE m \in Range(store.member) : m.id = msg.sender_id

RECURSIVE SumCounts(_)
SumCounts(rows) ==
  IF rows = <<>> THEN 0 ELSE Head(rows).messageCount + SumCounts(Tail(rows))

-----------------------------------------------------------------------------
(* C1 *)

\* the complete row set of a finished import: the meta row, one member row
\* per listed platform id, one message row per message of a listed sender,
\* and an open nickname interval for every member that sent a message
CompleteImport(store) ==
  /\ Len(store.meta) = 1
  /\ {m.platform_id : m \in Range(store.member)} = ListedIds
  /\ Len(store.message) = Cardinality(KnownMessages)
  /\ \A m \in Range(store.member) :
       InputOf(m.platform_id) # {} => OpenRows(store, m.id) # {}

\* C1: importData is atomic for readers. In every state of every
\* interleaving of the import with read queries, the rows visible to a
\* reader are either none at all (no meta, member, member_name_history or
\* message row) or the complete final rows of the finished import; a query
\* made before importData returned got no row; and after an import that
\* threw part-way through the walk none of its rows are present.
C1_ImportAtomicForReaders ==
  /\ \/ committed = EmptyDb
     \/ pc = "done" /\ committed = db /\ CompleteImport(committed)
  /\ (activity.called /\ ~activity.imported) => activity.rows = <<>>
  /\ pc = "failed" => committed = EmptyDb /\ db = EmptyDb

\* an import that threw after it had walked at least one message, with a
\* reader having queried the session
C1_Witness ==
  /\ pc = "failed"
  /\ msgIndex >= 2
  /\ \E j \in 1..(msgIndex - 1) :
       sortedMessages[j].senderPlatformId \in DOMAIN memberIdMap
  /\ activity.called

-----------------------------------------------------------------------------
(* C2 *)

\* C2: if importData fails inside the import transaction, after the session
\* file was created, then once it has returned control to the caller no file
\* for the generated session id exists.
C2_NoFileAfterFailedImport == pc = "failed" => ~fileExists

-----------------------------------------------------------------------------
(* C3 *)

NicknameIntervalsOk(store) ==
  \A memberId \in {r.member_id : r \in Range(store.member_name_history)} :
    /\ Cardinality(OpenRows(store, memberId)) <= 1
    /\ \A r \in ClosedRows(store, memberId) : r.start_ts <= r.end_ts
    /\ \A r1, r2 \in ClosedRows(store, memberId) :
         r1.id < r2.id => r1.start_ts <= r2.start_ts /\ r1.end_ts <= r2.start_ts
    /\ \A o \in OpenRows(store, memberId) :
         \A c \in ClosedRows(store, memberId) : o.start_ts >= c.end_ts

\* C3: in every state of the import walk (after each processed message) and
\* in the final state, for every member: at most one member_name_history row
\* has end_ts = NULL; every closed row has start_ts <= end_ts; the closed rows
\* in start_ts order (insertion order among equal start_ts) do not overlap,
\* each row's end_ts being <= the next row's start_ts; and the open row's
\* start_ts is >= every closed row's end_ts. The input may be out of order
\* and may have equal timestamps.
C3_NicknameIntervals == NicknameIntervalsOk(db) /\ NicknameIntervalsOk(committed)

\* during the walk of an out-of-order input with equal timestamps, a member
\* with a closed interval and an open one
C3_Witness ==
  /\ pc = "walk"
  /\ OutOfOrder(parseResult.messages)
  /\ ~DistinctTimestamps(parseResult.messages)
  /\ \E m \in Range(db.member) :
       ClosedRows(db, m.id) # {} /\ OpenRows(db, m.id) # {}

\* during the walk, a member with two closed intervals and an open one
C3_WitnessTwoClosed ==
  /\ pc = "walk"
  /\ OutOfOrder(parseResult.messages)
  /\ \E m \in Range(db.member) :
       Cardinality(ClosedRows(db, m.id)) >= 2 /\ OpenRows(db, m.id) # {}

-----------------------------------------------------------------------------
(* C4 *)

ExactlyOneOpenAndLast(store, memberId) ==
  /\ Cardinality(OpenRows(store, memberId)) = 1
  /\ \A o \in OpenRows(store, memberId) :
       \A r \in HistoryOf(store, memberId) :
          r.start_ts <= o.start_ts /\ r.id <= o.id

\* C4 as claimed: after a completed import, every member row has exactly one
\* member_name_history row with end_ts = NULL, the one with the greatest
\* start_ts.
C4_Original ==
  pc = "done" =>
    \A m \in Range(committed.member) : ExactlyOneOpenAndLast(committed, m.id)

\* C4 as amended: after a completed import, every member row that is the
\* sender of at least one message row has exactly one member_name_history
\* row with end_ts = NULL, and that row has the greatest start_ts (and was
\* inserted last) among the member's rows.
C4_OneOpenIntervalPerSender ==
  pc = "done" =>
    \A m \in Range(committed.member) :
       MessagesOf(committed, m.id) # {} => ExactlyOneOpenAndLast(committed, m.id)

\* a completed import with a member that changed its nickname
C4_Witness ==
  /\ pc = "done"
  /\ \E m \in Range(committed.member) :
       /\ MessagesOf(committed, m.id) # {}
       /\ ClosedRows(committed, m.id) # {}

-----------------------------------------------------------------------------
(* C5 *)

\* the position of the last message of pid in timestamp order, input order
\* deciding among equal timestamps
IsLastMessageOf(j, pid) ==
  /\ j \in InputOf(pid)
  /\ \A o \in InputOf(pid) \ {j} :
       \/ parseResult.messages[o].timestamp < parseResult.messages[j].timestamp
       \/ /\ parseResult.messages[o].timestamp = parseResult.messages[j].timestamp
          /\ o < j

\* the name of the first member-list entry of pid
InitialName(pid) ==
  LET hits == {q \in DOMAIN parseResult.members :
                 parseResult.members[q].platformId = pid}
  IN  parseResult.members[CHOOSE q \in hits : \A r \in hits : q <= r].name

\* C5: after a completed import, the stored name of a member that sent at
\* least one imported message is the sender_name of its last message in
\* timestamp order, and it is the name of the member's open history
\* interval; a listed member that sent no message keeps the initial name of
\* the member list and has no history row.
C5_FinalMemberNames ==
  pc = "done" =>
    \A m \in Range(committed.member) :
       IF InputOf(m.platform_id) # {}
         THEN /\ \A j \in InputOf(m.platform_id) :
                   IsLastMessageOf(j, m.platform_id) =>
                     m.name = parseResult.messages[j].senderName
              /\ \E o \in OpenRows(committed, m.id) : o.name = m.name
              /\ \A o \in OpenRows(committed, m.id) : o.name = m.name
         ELSE /\ m.name = InitialName(m.platform_id)
              /\ HistoryOf(committed, m.id) = {}

\* a completed import of an out-of-order input in which one member ends with
\* a name other than its initial one and another member never sent a message
C5_Witness ==
  /\ pc = "done"
  /\ OutOfOrder(parseResult.messages)
  /\ \E m \in Range(committed.member) :
       InputOf(m.platform_id) # {} /\ m.name # InitialName(m.platform_id)
  /\ \E m \in Range(committed.member) : InputOf(m.platform_id) = {}

-----------------------------------------------------------------------------
(* C6 *)

\* what a message row keeps of its message, with the platform id of the
\* member row its sender_id points to
RowKey(store, r) ==
  <<SenderOf(store, r).platform_id, r.ts, r.type, r.content>>
InputKey(msg) == <<msg.senderPlatformId, msg.timestamp, msg.type, msg.content>>

SenderIdsResolve(store) ==
  \A r \in Range(store.message) :
     Cardinality({m \in Range(store.member) : m.id = r.sender_id}) = 1

\* C6 as claimed: importing N messages and M members yields exactly N
\* message rows and exactly M member rows, every message row's sender being
\* the member with the message's sender platform id.
C6_Original ==
  pc = "done" =>
    /\ Len(committed.message) = Len(parseResult.messages)
    /\ Len(committed.member) = Len(parseResult.members)
    /\ SenderIdsResolve(committed)
    /\ \A key \in {InputKey(parseResult.messages[j]) : j \in DOMAIN parseResult.messages} :
         Cardinality({q \in DOMAIN committed.message :
                        RowKey(committed, committed.message[q]) = key})
           = Cardinality({j \in DOMAIN parseResult.messages :
                            InputKey(parseResult.messages[j]) = key})

\* C6 as amended: a completed import yields exactly one message row for each
\* message whose sender platform id is in the member list (N rows when that
\* is all N messages) and exactly one member row for each distinct platform
\* id of the member list (M rows when the M ids are distinct); every message
\* row's sender_id is the id of the one member row whose platform_id is the
\* message's sender platform id.
C6_RoundTrip ==
  pc = "done" =>
    /\ Len(committed.message) = Cardinality(KnownMessages)
    /\ Len(committed.member) = Cardinality(ListedIds)
    /\ {m.platform_id : m \in Range(committed.member)} = ListedIds
    /\ SenderIdsResolve(committed)
    /\ \A key \in {InputKey(parseResult.messages[j]) : j \in KnownMessages}
                  \cup {RowKey(committed, r) : r \in Range(committed.message)} :
         Cardinality({q \in DOMAIN committed.message :
                        RowKey(committed, committed.message[q]) = key})
           = Cardinality({j \in KnownMessages :
                            InputKey(parseResult.messages[j]) = key})

\* a completed import with a repeated member-list entry, a skipped message
\* of an unlisted sender and an imported message
C6_Witness ==
  /\ pc = "done"
  /\ Cardinality(ListedIds) < Len(parseResult.members)
  /\ Cardinality(KnownMessages) < Len(parseResult.messages)
  /\ Len(committed.message) > 0

-----------------------------------------------------------------------------
(* C7 *)

IndexPermutations(n) ==
  {f \in [1..n -> 1..n] : \A a, b \in 1..n : a # b => f[a] # f[b]}

HistoryRows(store) ==
  {<<r.member_id, r.name, r.start_ts, r.end_ts>> :
     r \in Range(store.member_name_history)}
MemberNames(store) ==
  {<<m.id, m.platform_id, m.name>> : m \in Range(store.member)}

\* C7: order independence. When the timestamps of the imported messages are
\* pairwise distinct, importing any permutation of the message list gives
\* the same member_name_history rows (member, name, start_ts, end_ts) and
\* the same final member names as the import that was run.
C7_OrderIndependence ==
  (pc = "done" /\ DistinctTimestamps(parseResult.messages)) =>
    \A f \in IndexPermutations(Len(parseResult.messages)) :
       LET permuted == [q \in DOMAIN parseResult.messages |->
                          parseResult.messages[f[q]]]
           other == ImportTransaction([parseResult EXCEPT !.messages = permuted])
       IN  /\ HistoryRows(other) = HistoryRows(committed)
           /\ MemberNames(other) = MemberNames(committed)

\* a completed import of three or more out-of-order messages with distinct
\* timestamps in which a member changed its nickname
C7_Witness ==
  /\ pc = "done"
  /\ DistinctTimestamps(parseResult.messages)
  /\ Len(parseResult.messages) >= 3
  /\ OutOfOrder(parseResult.messages)
  /\ \E m \in Range(committed.member) : ClosedRows(committed, m.id) # {}

-----------------------------------------------------------------------------
(* C8 *)

ScenarioQueried ==
  /\ parseResult = Scenario
  /\ pc = "done"
  /\ activity.called
  /\ activity.imported
  /\ activity.filter = NoFilter

CountsAndPercentages(rows) ==
  [q \in DOMAIN rows |->
     <<rows[q].platformId, rows[q].messageCount, rows[q].percentage>>]

\* C8 as claimed: after importing X "Alice"@100, X "Alicia"@200,
\* X "Alicia"@300 and Y "Bob"@150, getMemberActivity with no filter returns
\* X with messageCount 2 and 66.67% and Y with messageCount 1 and 33.33%.
C8_Original ==
  ScenarioQueried =>
    CountsAndPercentages(activity.rows) = <<<<"X", 2, 6667>>, <<"Y", 1, 3333>>>>

\* C8 as amended: after that import, getMemberActivity with no filter
\* returns X with messageCount 3 and 75% and Y with messageCount 1 and 25%.
C8_ScenarioActivity ==
  ScenarioQueried =>
    CountsAndPercentages(activity.rows) = <<<<"X", 3, 7500>>, <<"Y", 1, 2500>>>>

C8_Witness == ScenarioQueried /\ Len(activity.rows) = 2

-----------------------------------------------------------------------------
(* C9 *)

\* the non-system messages of a store within a filter, counted row by row
FilteredTotal(store, filter) ==
  Cardinality({q \in DOMAIN store.message :
                 /\ InRange(store.message[q].ts, filter)
                 /\ SenderOf(store, store.message[q]).name # SystemSender})

\* p = round(count / total * 10000): the integer with p - 1/2 <= x < p + 1/2
IsRounded(p, count, total) ==
  /\ 2 * total * p <= 20000 * count + total
  /\ 20000 * count + total < 2 * total * p + 2 * total

\* C9: percentage law. For every store and time filter, the messageCount of
\* the rows getMemberActivity returns add up to the number of non-system
\* messages within the filter, and each row's percentage is
\* round(messageCount / total * 10000) / 100 (0 when the total is 0).
C9_PercentageLaw ==
  activity.called =>
    LET total == FilteredTotal(StoreReadBy(activity), activity.filter)
    IN  /\ SumCounts(activity.rows) = total
        /\ \A q \in DOMAIN activity.rows :
             IF total = 0 THEN activity.rows[q].percentage = 0
             ELSE IsRounded(activity.rows[q].percentage,
                            activity.rows[q].messageCount, total)

\* a filtered query on a store that holds a message of a system-named
\* member inside the filter and a returned row
C9_Witness ==
  /\ activity.called /\ activity.imported
  /\ activity.filter # NoFilter
  /\ Len(activity.rows) >= 1
  /\ \E r \in Range(committed.message) :
       /\ InRange(r.ts, activity.filter)
       /\ SenderOf(committed, r).name = SystemSender

\* a query whose percentages are rounded (thirds)
C9_WitnessRounded ==
  /\ activity.called /\ activity.imported
  /\ \E q \in DOMAIN activity.rows : activity.rows[q].percentage = 6667

-----------------------------------------------------------------------------
(* C10 *)

MessagesInRange(store, memberId, filter) ==
  {r \in MessagesOf(store, memberId) : InRange(r.ts, filter)}

\* C10: getMemberActivity returns exactly one row for each member whose
\* name is not the reserved system sender and that has at least one message
\* with startTs <= ts <= endTs (each bound only if given, both inclusive),
\* with that number of messages as messageCount; no member without a message
\* in range appears; the rows are in non-increasing messageCount order.
C10_ActivityRows ==
  activity.called =>
    LET store == StoreReadBy(activity)
        rows == activity.rows
    IN  /\ {rows[q].memberId : q \in DOMAIN rows}
             = {m.id : m \in {n \in Range(store.member) :
                                /\ n.name # SystemSender
                                /\ MessagesInRange(store, n.id, activity.filter) # {}}}
        /\ \A a, b \in DOMAIN rows : a # b => rows[a].memberId # rows[b].memberId
        /\ \A q \in DOMAIN rows :
             rows[q].messageCount
               = Cardinality(MessagesInRange(store, rows[q].memberId, activity.filter))
        /\ \A a, b \in DOMAIN rows :
             a < b => rows[a].messageCount >= rows[b].messageCount

\* a query with both bounds that returns a member with a message on the
\* bound and leaves out a member whose messages are all out of range
C10_Witness ==
  /\ activity.called /\ activity.imported
  /\ activity.filter.startTs # NULL /\ activity.filter.endTs # NULL
  /\ \E q \in DOMAIN activity.rows :
       \E r \in MessagesOf(committed, activity.rows[q].memberId) :
          r.ts = activity.filter.endTs
  /\ \E m \in Range(committed.member) :
       /\ m.name # SystemSender
       /\ MessagesOf(committed, m.id) # {}
       /\ MessagesInRange(committed, m.id, activity.filter) = {}

-----------------------------------------------------------------------------
(* C11 *)

\* the hour of the local day a timestamp falls in
LocalHour(ts, tz) == ((ts + tz) % 86400) \div 3600

NonSystemInRange(store, filter) ==
  {q \in DOMAIN store.message :
     /\ InRange(store.message[q].ts, filter)
     /\ SenderOf(store, store.message[q]).name # SystemSender}

\* C11: for an existing store and any time filter, getHourlyActivity returns
\* exactly 24 entries, entry h having hour = h for h = 0..23 in ascending
\* order; an hour in which no message was sent has messageCount 0 and every
\* other hour the number of its messages; the counts add up to the number of
\* non-system messages within the filter.
C11_HourlyActivity ==
  (result.op = "getHourlyActivity" /\ result.args.fileExisted) =>
    LET rows == result.value
        counted == NonSystemInRange(committed, result.args.filter)
    IN  /\ Len(rows) = 24
        /\ \A i \in 1..24 :
             /\ rows[i].hour = i - 1
             /\ rows[i].messageCount
                  = Cardinality({q \in counted :
                       LocalHour(committed.message[q].ts, result.args.tz) = i - 1})
        /\ SumCounts(rows) = Cardinality(counted)

\* a filtered call west of UTC: messages in hour 23 and hour 0, a system
\* message and a message out of range left out, 22 hours with count 0
C11_Witness ==
  /\ result.op = "getHourlyActivity" /\ result.args.fileExisted
  /\ result.args.tz < 0
  /\ result.value[24].messageCount > 0
  /\ result.value[1].messageCount > 0
  /\ \A i \in 2..23 : result.value[i].messageCount = 0
  /\ Cardinality(NonSystemInRange(committed, result.args.filter))
       < Len(committed.message)

-----------------------------------------------------------------------------
(* C12 *)

\* [] and null, and the empty page of getRecentMessages and searchMessages
NeutralValue(op) ==
  IF op \in {"getRecentMessages", "searchMessages"} THEN NoMessages ELSE <<>>

MissingStoreReads ==
  {"getAvailableYears", "getHourlyActivity", "getDailyActivity",
   "getMessageTypeDistribution", "getMemberNameHistory", "getMessageContext",
   "getTimeRange", "getSession", "getRecentMessages", "searchMessages"}

\* C12: every read query on a session id that has no store file returns its
\* neutral value without throwing and without creating any file: [] for
\* getAvailableYears, getMemberActivity, getHourlyActivity, getDailyActivity,
\* getMessageTypeDistribution, getMemberNameHistory and getMessageContext,
\* null for getTimeRange and getSession, {messages: [], total: 0} for
\* getRecentMessages and searchMessages.
C12_MissingStoreIsNeutral ==
  [][(/\ ~fileExists
      /\ pc' = pc
      /\ (result'.op \in MissingStoreReads \/ activity'.called))
       => /\ ~fileExists'
          /\ sideFiles' = sideFiles
          /\ otherFiles' = otherFiles
          /\ activity'.called => activity'.rows = <<>>
          /\ result'.op \in MissingStoreReads
               => result'.value = NeutralValue(result'.op)]_vars

\* getSession called after the session, which had been imported with its
\* messages, was deleted
C12_Witness ==
  /\ ~fileExists
  /\ pc = "done"
  /\ Len(committed.message) > 0
  /\ result.op = "getSession"
  /\ ~result.args.fileExisted
  /\ result.value = JsNull

-----------------------------------------------------------------------------
(* C13 *)

\* C13: deleteSession(id) returns false when the primary file is already
\* absent, and returns true only when the primary file existed and was
\* removed; so a second deleteSession(id) right after a successful one
\* returns false.
C13_DeleteReturnValue ==
  result.op = "deleteSession" =>
    /\ ~result.args.primary => ~result.value.returned
    /\ result.value.returned => (result.args.primary /\ ~result.value.primary)

-----------------------------------------------------------------------------
(* C14 *)

\* C14: after deleteSession(id) returns (true or false), the primary file
\* and the -wal and -shm side files are either all still present as before
\* the call or all absent: the primary file gone while a side file remains
\* is never reachable. After a true result all three are absent, the session
\* no longer appears in getAllSessions and getSession(id) returns null.
C14_FilesDeletedTogether ==
  /\ result.op = "deleteSession" =>
       /\ \/ /\ result.value.primary = result.args.primary
             /\ result.value.wal = result.args.wal
             /\ result.value.shm = result.args.shm
          \/ ~(result.value.primary \/ result.value.wal \/ result.value.shm)
       /\ result.value.returned
            => ~(result.value.primary \/ result.value.wal \/ result.value.shm)
  /\ ~fileExists => ~(sideFiles.wal \/ sideFiles.shm)
  /\ (result.op = "getAllSessions" /\ ~fileExists)
       => \A q \in DOMAIN result.value : result.value[q].id # SessionId
  /\ (result.op = "getSession" /\ ~fileExists) => result.value = JsNull

-----------------------------------------------------------------------------
(* C15 *)

\* C15: creating a store for a session id whose file already exists fails
\* with AlreadyExists and leaves the existing file's rows unchanged;
\* consequently importData never adds rows to a store that already holds an
\* imported session.
C15_CreateExistingFails ==
  (result.op = "importData" /\ result.args.fileExisted) =>
    /\ result.value = "AlreadyExists"
    /\ committed = result.args.before

-----------------------------------------------------------------------------
(* C16 *)

\* the positions of a listing whose file opens and has a meta row
ValidFiles(files) ==
  {q \in DOMAIN files : files[q].opens /\ Len(files[q].store.meta) > 0}

\* C16: getAllSessions returns one summary for every store file that opens
\* and has a Meta row, and none for a file that fails to open or has no Meta
\* row (the file left by a failed import included): such a file never makes
\* it throw or leave out a valid session. The list is in non-increasing
\* importedAt order.
C16_SessionListing ==
  result.op = "getAllSessions" =>
    LET files == result.args.files
        list == result.value
    IN  /\ Len(list) = Cardinality(ValidFiles(files))
        /\ \A q \in ValidFiles(files) :
             \E r \in DOMAIN list :
                /\ list[r].id = files[q].id
                /\ list[r].importedAt = files[q].store.meta[1].imported_at
        /\ \A a, b \in DOMAIN list :
             a < b => list[a].importedAt >= list[b].importedAt

\* a listing with a file that does not open, the file a failed import left
\* and two sessions listed oldest first
C16_Witness ==
  /\ result.op = "getAllSessions"
  /\ pc = "failed"
  /\ \E q \in DOMAIN result.args.files : ~result.args.files[q].opens
  /\ \E q \in DOMAIN result.args.files :
       /\ result.args.files[q].id = SessionId
       /\ Len(result.args.files[q].store.meta) = 0
  /\ \E a, b \in ValidFiles(result.args.files) :
       /\ a < b
       /\ result.args.files[a].store.meta[1].imported_at
            < result.args.files[b].store.meta[1].imported_at
  /\ Len(result.value) = 2

-----------------------------------------------------------------------------
(* C17 *)

NonEmpty(content) == content # NullText /\ content # <<>>

MinOf(a, b) == IF a < b THEN a ELSE b

\* the messages of a page are distinct messages of the given set, each with
\* its own timestamp
PageOf(messages, rowSet) ==
  /\ \A a, b \in DOMAIN messages : a # b => messages[a].id # messages[b].id
  /\ \A a \in DOMAIN messages :
       \E r \in rowSet : r.id = messages[a].id /\ r.ts = messages[a].timestamp

\* no message of the set that is left out is newer than a returned one
Newest(messages, rowSet) ==
  \A r \in rowSet :
     r.id \notin {messages[a].id : a \in DOMAIN messages}
       => \A a \in DOMAIN messages : r.ts <= messages[a].timestamp

Chronological(messages) ==
  \A a, b \in DOMAIN messages :
     a < b => messages[a].timestamp <= messages[b].timestamp

\* C17: getRecentMessages(filter, limit) returns total = the number of
\* messages within the filter that have type 0, non-empty content and a
\* non-system sender, whatever the limit; messages has min(limit, total)
\* entries, which are the matching messages with the greatest timestamps (no
\* matching message left out has a timestamp strictly greater than a
\* returned one), in non-decreasing timestamp order.
C17_RecentMessages ==
  (result.op = "getRecentMessages" /\ result.args.fileExisted) =>
    LET matching == {r \in Range(committed.message) :
                       /\ InRange(r.ts, result.args.filter)
                       /\ r.type = 0
                       /\ NonEmpty(r.content)
                       /\ SenderOf(committed, r).name # SystemSender}
        messages == result.value.messages
    IN  /\ result.value.total = Cardinality(matching)
        /\ Len(messages) = MinOf(result.args.limit, result.value.total)
        /\ PageOf(messages, matching)
        /\ Newest(messages, matching)
        /\ Chronological(messages)

\* a call with limit 1 on a store with two matching messages and a message
\* that does not match
C17_Witness ==
  /\ result.op = "getRecentMessages" /\ result.args.fileExisted
  /\ result.args.limit = 1
  /\ result.value.total = 2
  /\ Len(result.value.messages) = 1
  /\ Len(committed.message) = 3

-----------------------------------------------------------------------------
(* C18 *)

\* the keyword occurs in the content
Contains(content, keyword) ==
  /\ content # NullText
  /\ \E a \in 1..(Len(content) + 1), b \in 0..Len(content) :
       SubSeq(content, a, b) = keyword

\* the messages a search is about: within the time filter, of a non-system
\* sender, of the given sender if there is one, and matching the keywords
SearchedMessages(store, args) ==
  {r \in Range(store.message) :
     /\ InRange(r.ts, args.filter)
     /\ SenderOf(store, r).name # SystemSender
     /\ args.senderId # NULL => r.sender_id = args.senderId
     /\ \/ Len(args.keywords) = 0
        \/ \E k \in DOMAIN args.keywords : Contains(r.content, args.keywords[k])}

\* newest first, and among equal timestamps in the order of the ids
NewestFirstThenId(messages) ==
  \A a, b \in DOMAIN messages :
     a < b => \/ messages[a].timestamp > messages[b].timestamp
              \/ /\ messages[a].timestamp = messages[b].timestamp
                 /\ messages[a].id > messages[b].id

\* C18: searchMessages pagination is complete and stable. total equals the
\* count of all matching messages (a message matches when the keyword list
\* is empty or its content contains at least one keyword), whatever limit
\* and offset are; results are newest-first with id as tie-breaker among
\* equal timestamps; reading the pages at offsets 0, limit, 2*limit, ...
\* until an empty page yields every matching message exactly once, also
\* when several matches share a timestamp.
C18_SearchPagination ==
  (result.op = "searchMessages" /\ result.args.fileExisted) =>
    LET matching == SearchedMessages(committed, result.args)
        messages == result.value.messages
    IN  /\ result.value.total = Cardinality(matching)
        /\ PageOf(messages, matching)
        /\ NewestFirstThenId(messages)
        /\ result.args.page > 0 =>
             /\ Ids(messages) \cap result.args.seen = {}
             /\ messages = <<>> => result.args.seen = {r.id : r \in matching}

-----------------------------------------------------------------------------
(* C19 *)

\* the stored ids at most k places from id in the order of the ids
Neighbourhood(store, id, k) ==
  {m \in MessageIds(store) :
     \/ m = id
     \/ m < id /\ Cardinality({n \in MessageIds(store) : m < n /\ n < id}) < k
     \/ m > id /\ Cardinality({n \in MessageIds(store) : id < n /\ n < m}) < k}

\* at most 2k+1 messages, in strictly ascending id order, which are exactly
\* the stored messages of the neighbourhood, whatever their content, type
\* and sender
ContextOf(messages, store, id, k) ==
  /\ Len(messages) <= 2 * k + 1
  /\ \A a, b \in DOMAIN messages : a < b => messages[a].id < messages[b].id
  /\ Ids(messages) = Neighbourhood(store, id, k)
  /\ PageOf(messages, Range(store.message))

\* C19 as stated: for every id and every k >= 0, getMessageContext([id], k)
\* returns at most 2k+1 messages, always includes the message id, is in
\* strictly ascending id order without duplicates, applies no content, type
\* or sender filtering, and is contiguous in id order: it contains exactly
\* id, the k nearest smaller ids and the k nearest greater ids.
C19_Original ==
  (/\ result.op = "getMessageContext"
   /\ result.args.fileExisted
   /\ Len(result.args.ids) = 1) =>
    /\ ContextOf(result.value, committed, result.args.ids[1],
                 result.args.contextSize)
    /\ result.args.ids[1] \in Ids(result.value)

\* C19: for every id of a stored message and every k >= 0,
\* getMessageContext([id], k) returns at most 2k+1 messages, always includes
\* the message id, is in strictly ascending id order without duplicates,
\* applies no content, type or sender filtering, and is contiguous in id
\* order: it contains exactly id, the k nearest smaller ids and the k
\* nearest greater ids.
C19_MessageContext ==
  (/\ result.op = "getMessageContext"
   /\ result.args.fileExisted
   /\ Len(result.args.ids) = 1
   /\ result.args.ids[1] \in MessageIds(committed)) =>
    /\ ContextOf(result.value, committed, result.args.ids[1],
                 result.args.contextSize)
    /\ result.args.ids[1] \in Ids(result.value)

\* the context of size 1 of the first of three messages: the second message
\* is returned though it is no text of a member with content, the third is
\* left out
C19_Witness ==
  /\ result.op = "getMessageContext" /\ result.args.fileExisted
  /\ result.args.ids = <<1>>
  /\ result.args.contextSize = 1
  /\ Len(committed.message) = 3
  /\ Ids(result.value) = {1, 2}
  /\ \/ result.value[2].type # 0
     \/ ~NonEmpty(result.value[2].content)
     \/ result.value[2].senderName = SystemSender

-----------------------------------------------------------------------------
(* C20 *)

IsMember(store, memberId) == \E m \in Range(store.member) : m.id = memberId

-----------------------------------------------------------------------------
(* C22 *)

\* input position a comes before input position b in ascending timestamp
\* order, input order deciding among equal timestamps
Earlier(a, b) ==
  \/ parseResult.messages[a].timestamp < parseResult.messages[b].timestamp
  \/ /\ parseResult.messages[a].timestamp = parseResult.messages[b].timestamp
     /\ a < b

\* the elements of a finite set as a sequence in the strict total order Lt
Ranked(S, Lt(_, _)) ==
  [k \in 1..Cardinality(S) |->
     CHOOSE x \in S : Cardinality({y \in S : Lt(y, x)}) = k - 1]

\* the first positions of the maximal runs of equal sender_name among the
\* messages of pid: the positions whose predecessor, if any, has another name
RunStarts(pid) ==
  {j \in InputOf(pid) :
     \A o \in InputOf(pid) :
        (/\ Earlier(o, j)
         /\ \A p \in InputOf(pid) : ~(Earlier(o, p) /\ Earlier(p, j)))
        => parseResult.messages[o].senderName # parseResult.messages[j].senderName}

\* one (name, start_ts, end_ts) per run, in run order
RunRows(pid) ==
  LET starts == Ranked(RunStarts(pid), Earlier)
  IN  [k \in DOMAIN starts |->
         <<parseResult.messages[starts[k]].senderName,
           parseResult.messages[starts[k]].timestamp,
           IF k < Len(starts) THEN parseResult.messages[starts[k + 1]].timestamp
                              ELSE NULL>>]

HistoryRowBefore(r1, r2) ==
  r1.start_ts < r2.start_ts \/ (r1.start_ts = r2.start_ts /\ r1.id < r2.id)

\* the (name, start_ts, end_ts) of a member's history rows ordered by
\* start_ts, insertion order deciding among equal start_ts
HistoryInOrder(store, memberId) ==
  LET rows == Ranked(HistoryOf(store, memberId), HistoryRowBefore)
  IN  [k \in DOMAIN rows |-> <<rows[k].name, rows[k].start_ts, rows[k].end_ts>>]

\* C22: after a completed import, for each member that sent messages, the
\* member's history rows ordered by start_ts are exactly the maximal runs of
\* equal sender_name in that member's messages taken in ascending timestamp
\* order (input order among equal timestamps): one row per run, with the
\* run's name, start_ts the timestamp of the run's first message, end_ts the
\* start_ts of the next run, and end_ts NULL for the last run. For the
\* scenario X "Alice"@100, "Alicia"@200, "Alicia"@300, Y "Bob"@150 the rows
\* are ("Alice",100,200), ("Alicia",200,NULL) for X and ("Bob",150,NULL)
\* for Y.
C22_HistoryRuns ==
  pc = "done" =>
    /\ \A m \in Range(committed.member) :
         InputOf(m.platform_id) # {} =>
           HistoryInOrder(committed, m.id) = RunRows(m.platform_id)
    /\ parseResult = Scenario =>
         /\ HistoryInOrder(committed, GetMemberId(committed.member, "X"))
              = <<(<<"Alice", 100, 200>>), (<<"Alicia", 200, NULL>>)>>
         /\ HistoryInOrder(committed, GetMemberId(committed.member, "Y"))
              = <<(<<"Bob", 150, NULL>>)>>

\* a completed import of an out-of-order input with equal timestamps in
\* which a member has three runs, the first name coming back in the third
C22_Witness ==
  /\ pc = "done"
  /\ OutOfOrder(parseResult.messages)
  /\ ~DistinctTimestamps(parseResult.messages)
  /\ \E m \in Range(committed.member) :
       /\ Len(RunRows(m.platform_id)) = 3
       /\ RunRows(m.platform_id)[1][1] = RunRows(m.platform_id)[3][1]

\* the completed import of the scenario
C22_WitnessScenario == pc = "done" /\ parseResult = Scenario

-----------------------------------------------------------------------------
(* C23 *)

\* the input positions of the messages whose sender is not in the member list
UnknownMessages == DOMAIN parseResult.messages \ KnownMessages

\* the sequence without the elements at the positions outside keep
RECURSIVE KeepPositions(_, _)
KeepPositions(seq, keep) ==
  IF seq = <<>> THEN <<>>
  ELSE KeepPositions(SubSeq(seq, 1, Len(seq) - 1), keep)
         \o (IF Len(seq) \in keep THEN <<seq[Len(seq)]>> ELSE <<>>)

\* the parse result as if the messages of unlisted senders were absent
WithoutUnknown ==
  [parseResult EXCEPT !.messages = KeepPositions(@, KnownMessages)]

\* the connection state at the end of the walk of parse
WalkedConn(parse) ==
  FoldWalk(FoldMembers([db |-> InsertMeta(EmptyDb, parse.meta),
                        memberIdMap |-> <<>>, nicknameTracker |-> <<>>],
                       parse.members),
           SortByTimestamp(parse.messages))

\* C23: a message whose sender platform id is not in the member list is
\* skipped without error. The import never throws at such a message (a
\* failed import stopped at a message of a listed sender); and a completed
\* import created no member row, message row or history row for it and no
\* nickname tracker entry, its rows and its tracker being exactly those of
\* the import of the same parse result without the messages of unlisted
\* senders.
C23_UnknownSenderSkipped ==
  /\ pc = "failed" => sortedMessages[msgIndex].senderPlatformId \in ListedIds
  /\ pc = "done" =>
       /\ {m.platform_id : m \in Range(committed.member)} = ListedIds
       /\ DOMAIN nicknameTracker \subseteq ListedIds
       /\ Len(committed.message) = Cardinality(KnownMessages)
       /\ committed = ImportTransaction(WithoutUnknown)
       /\ nicknameTracker = WalkedConn(WithoutUnknown).nicknameTracker

\* a completed import that skipped a message without a sender name of an
\* unlisted sender, walked before an imported message of a listed sender
C23_Witness ==
  /\ pc = "done"
  /\ \E u \in UnknownMessages :
       /\ parseResult.messages[u].senderName = Undefined
       /\ \E j \in KnownMessages :
            parseResult.messages[u].timestamp < parseResult.messages[j].timestamp
  /\ Len(committed.message) > 0

-----------------------------------------------------------------------------
(* C24 *)

\* the messages of listed senders in ascending timestamp order, input order
\* deciding among equal timestamps, as (platform id, ts, type, content)
ExpectedMessageOrder ==
  LET order == Ranked(KnownMessages, Earlier)
  IN  [k \in DOMAIN order |-> InputKey(parseResult.messages[order[k]])]

MessageRowBefore(r1, r2) == r1.ts < r2.ts \/ (r1.ts = r2.ts /\ r1.id < r2.id)

\* ORDER BY id and ORDER BY ts, id
MessagesById(store) == Ranked(Range(store.message), LAMBDA r1, r2 : r1.id < r2.id)
MessagesByTsThenId(store) == Ranked(Range(store.message), MessageRowBefore)

\* C24: after a completed import, message id order agrees with timestamp
\* order: for any two message rows a and b, id(a) < id(b) implies
\* ts(a) <= ts(b); messages with equal timestamps get ids in their input
\* order (the rows in id order are the imported messages in ascending
\* timestamp order, input order among equal timestamps); and ordering by id
\* and ordering by (ts, id) give the same sequence, whatever the order of the
\* input list.
C24_IdOrderIsTimestampOrder ==
  pc = "done" =>
    /\ \A a, b \in Range(committed.message) : a.id < b.id => a.ts <= b.ts
    /\ [k \in DOMAIN MessagesById(committed) |->
          RowKey(committed, MessagesById(committed)[k])] = ExpectedMessageOrder
    /\ MessagesById(committed) = MessagesByTsThenId(committed)

\* a completed import of an out-of-order input of three messages, two of
\* them of different senders with the same timestamp
C24_Witness ==
  /\ pc = "done"
  /\ Len(committed.message) >= 3
  /\ OutOfOrder(parseResult.messages)
  /\ \E a, b \in Range(committed.message) :
       a.id < b.id /\ a.ts = b.ts /\ a.sender_id # b.sender_id

-----------------------------------------------------------------------------
(* C21 *)

\* the message row meets the filters of the query: its time range, its
\* member and its keywords (any one of them)
MeetsActiveFilters(r, query) ==
  /\ query.startTs # NULL => r.ts >= query.startTs
  /\ query.endTs # NULL => r.ts <= query.endTs
  /\ query.memberId # NULL => r.sender_id = query.memberId
  /\ \/ Len(query.keywords) = 0
     \/ \E k \in DOMAIN query.keywords : Contains(r.content, query.keywords[k])

MatchingIds ==
  {r.id : r \in {x \in Range(committed.message) :
                   MeetsActiveFilters(x, messageList.query)}}

ShownIds == {messageList.messages[q].id : q \in DOMAIN messageList.messages}
FirstShown == messageList.messages[1].id
LastShown == messageList.messages[Len(messageList.messages)].id

Anchored == Truthy(messageList.query.scrollToMessageId)

\* the list is in strictly ascending id order, leaves out no matching
\* message between its ends, and a false hasMore flag has no matching message
\* beyond its end
PagedInOrder ==
  /\ \A a, b \in DOMAIN messageList.messages :
       a < b => messageList.messages[a].id < messageList.messages[b].id
  /\ Len(messageList.messages) > 0 =>
       /\ \A i \in MatchingIds : (FirstShown <= i /\ i <= LastShown) => i \in ShownIds
       /\ ~messageList.hasMoreBefore => \A i \in MatchingIds : i >= FirstShown
       /\ ~messageList.hasMoreAfter => \A i \in MatchingIds : i <= LastShown

\* no request is in flight and neither side has more
PaginationDone ==
  /\ pending = <<>>
  /\ ~messageList.isLoading
  /\ ~messageList.hasMoreBefore
  /\ ~messageList.hasMoreAfter

\* C21: pagination completeness. Starting from an arbitrary anchor message
\* id, the list built by loadInitialMessages (page before the anchor, the
\* anchor, page after the anchor) and extended by loadMoreBefore and
\* loadMoreAfter is at every step in strictly ascending id order without
\* duplicates and without a gap between its ends, hasMoreBefore and
\* hasMoreAfter are false only when no matching message remains on that side,
\* and when the last response leaves both false the list contains every
\* message that meets the active filters exactly once.
C21_PaginationComplete ==
  [][Anchored' =>
       /\ PagedInOrder'
       /\ (pending # <<>> /\ PaginationDone') => (MatchingIds' \subseteq ShownIds')]_vars

\* a list of the whole conversation that was reached from an anchor by more
\* than one further page
C21_Witness ==
  /\ Anchored
  /\ PaginationDone
  /\ messageList.query.scrollToMessageId \in ShownIds
  /\ Len(messageList.messages) = MaxListMsgs
  /\ Len(messageList.messages) > 2 * PageSize + 1

\* a complete list under a member filter the anchor does not meet
C21_WitnessFiltered ==
  /\ Anchored
  /\ PaginationDone
  /\ messageList.query.memberId # NULL
  /\ messageList.query.scrollToMessageId \in ShownIds \ MatchingIds
  /\ Cardinality(MatchingIds) > PageSize

-----------------------------------------------------------------------------
(* C25 *)

\* the load-more requests in flight
LoadMoreInFlight ==
  {q \in DOMAIN pending : pending[q].fn \in {"loadMoreBefore", "loadMoreAfter"}}

\* C25: at most one load-more request is in flight at any time, over any
\* sequence of scroll events, query changes and responses: loadMoreBefore
\* and loadMoreAfter never run concurrently with each other or with
\* themselves, and isLoadingMore is true exactly while that request is in
\* flight (a call made while it is true issues no request, and it is false
\* again once the request has resolved or rejected).
C25_OneLoadMoreInFlight ==
  /\ Cardinality(LoadMoreInFlight) <= 1
  /\ messageList.isLoadingMore <=> LoadMoreInFlight # {}

\* a load-more request in flight on a list that has more on both sides,
\* while a later loadInitialMessages call is also awaiting its response
C25_Witness ==
  /\ messageList.isLoadingMore
  /\ messageList.hasMoreBefore
  /\ messageList.hasMoreAfter
  /\ \E q \in LoadMoreInFlight, i \in DOMAIN pending :
       q < i /\ pending[i].fn = "loadInitialMessages"

\* a load-more request has rejected: the list still has more on that side
\* and isLoadingMore is false again
C25_WitnessSettled ==
  /\ ~messageList.isLoadingMore
  /\ pending = <<>>
  /\ Len(messageList.messages) > 0
  /\ messageList.hasMoreBefore
  /\ messageList.hasMoreAfter

-----------------------------------------------------------------------------
(* C26 *)

\* C26: the displayed messages are the result of the most recent query only:
\* when a request settles that was issued before the latest
\* loadInitialMessages call (under an earlier query, or before a refresh
\* reset the list), messages is left as it is, whatever the order in which
\* the responses arrive.
C26_OnlyLatestQueryShown ==
  [][\A q \in DOMAIN pending :
       (pending[q].superseded /\ pending' = RemoveAt(pending, q))
         => messageList'.messages = messageList.messages]_vars

====
